---- MODULE Spec2Model ----
(***************************************************************************)
(* VietMarket: lease coordinator (apps/web/convex/leases.ts), the sharded  *)
(* candle batch worker (packages/ingest/vn/candles_batch_run.sh), the      *)
(* Convex candle table (candles.ts, schema.ts, health queries) and the     *)
(* History API candle endpoint (deploy/history-api/server.mjs).            *)
(***************************************************************************)
EXTENDS Integers, Sequences, FiniteSets, TLC

VARIABLES
    now,          \* Date.now() of the Convex deployment, unix ms
    shardLeases,  \* table shardLeases: a set of documents
    lastCall,     \* the last lease mutation: its arguments, the row it read, its result
    script,       \* per node: which copy of the batch script its cron runs
    worker,       \* per node: the position and locals of its batch run
    cursorFile,   \* per node: nextIndex in the shard's cursor file, or NoFile
    candles,      \* table candles: a set of documents
    nextId,       \* the creation order of the next document of candles
    lastUpsert,   \* what the last candles:upsertMany returned: {inserted, updated}
    pgCandles,    \* warehouse table candles read by the History API: a set of rows
    pager,        \* a client of GET /candles paging through one (ticker, tf)
    httpLog,      \* the last request to the History API and what it was answered
    repairQueue,  \* table candleRepairQueue: a set of documents
    queueNextId,  \* _id of the next document of candleRepairQueue
    queueCall,    \* the last repairQueue mutation: its arguments and the row it read
    client,       \* the call of fetchJsonWithRetry in progress
    ingest,       \* the run of simplize_ingest.mjs
    articleSymbols, \* registry table article_symbols: a set of rows
    observedMax,  \* per (url, ticker): the highest confidence any upsert carried, 0 if none
    fiLatest,     \* registry table fi_latest as committed: what a reader sees
    replaceCall,  \* the call of replaceFiLatest in progress
    fiPoints,     \* table fi_points: a set of rows, each with its rowid
    fiNextRowid,  \* rowid of the next row inserted into fi_points
    fiLastUpsert, \* per primary key of fi_points: the payload of the last upsert, or NoPayload
    fiCall,       \* the last call of upsertRows: its rows, the table before it, and
                  \* whether the call before it had the same rows
    fundDisk,     \* data/simplize: state.json, raw/ and normalized/
    fundRun,      \* the last run of simplize_ingest.mjs for one ticker: what it saw and did
    strCall,      \* two JSON values and their stableStringify and blockHash
    pgArticles,   \* warehouse table articles read by the History API: a set of rows
    newsPager,    \* a client of GET /news/latest following nextCursor
    linkCall,     \* a call of linkSymbolsCore: the matches of each rule and the output
    freshCall,    \* a call of evaluateFreshness: its arguments and its result
    expand,       \* the run of simplize_expand_market.mjs
    expandCursor, \* nextChunk in expand.cursor.json, or NoFile
    batchSel,     \* runs of the batch selection on one cursor file: what the last read and wrote
    orderRun,     \* two upsertMany calls applied to an empty table in both orders
    limitCall,    \* a GET /candles with any limit parameter: the request and its answer
    repairers,    \* per repair worker: the row it took from nextQueued and what markRunning answered
    backfill,     \* the Vietstock link backfill: the archive, the registry cursor and the articles linked
    fundIngest        \* a run of simplize_ingest.mjs step by step: its position, its in-memory state, the blocks in the log

leaseVars == <<shardLeases, lastCall>>
workerVars == <<script, worker, cursorFile>>
candleVars == <<candles, nextId, lastUpsert>>
apiVars == <<pgCandles, pager, httpLog>>
queueVars == <<repairQueue, queueNextId, queueCall>>
clientVars == <<client, ingest>>
linkVars == <<articleSymbols, observedMax>>
latestVars == <<fiLatest, replaceCall>>
fiVars == <<fiPoints, fiNextRowid, fiLastUpsert, fiCall>>
sqlVars == <<linkVars, latestVars, fiVars>>
fundVars == <<fundDisk, fundRun>>
newsVars == <<pgArticles, newsPager>>
pureVars == <<strCall, linkCall, freshCall>>
moreVars == <<fundVars, newsVars, pureVars>>
expandVars == <<expand, expandCursor>>
tailVars == <<limitCall, repairers, backfill, fundIngest>>
lastVars == <<expandVars, batchSel, orderRun, tailVars>>
restVars == <<queueVars, clientVars, sqlVars, moreVars, lastVars>>
vars == <<now, leaseVars, workerVars, candleVars, apiVars, restVars>>

----------------------------------------------------------------------------
(* Bounds of the model *)

MaxTicks == 5        \* ticks of the clock when the coordinator is called directly
MaxRunTicks == 3     \* ticks of the clock while the fleet runs
MaxCandleTicks == 1  \* ticks of the clock while candles are upserted
MaxBatch == 2        \* candles per upsertMany call
MaxBarTs == 3        \* the warehouse holds bars at ts 0..MaxBarTs
MaxQueueTicks == 1   \* ticks of the clock while the repair queue is used
MaxCursorTicks == 2  \* ticks of the clock while the cursors are followed

----------------------------------------------------------------------------
(* leases.ts *)

MinLeaseMs == 30000
MaxLeaseMs == 1800000
MsPerMinute == 60000
DefaultLeaseMs == 5 * MsPerMinute

\* The clock advances in steps of the shortest lease the coordinator grants,
\* so that every comparison of tryClaim meets its boundary exactly.
TickMs == MinLeaseMs

\* An optional argument that was not passed (undefined).
NoArg == -1

Min(a, b) == IF a < b THEN a ELSE b
Max(a, b) == IF a > b THEN a ELSE b

Jobs == {"candles"}
Shards == {0}
Owners == {"optiplex", "epyc"}
LeaseMsArgs == {NoArg, 1000, 2 * MinLeaseMs}
StaleMinutesArgs == {0, 1, 2}
MetaArgs == {"", "boot"}     \* "" stands for an absent meta

\* Math.min(Math.max(args.leaseMs ?? 5 * 60_000, 30_000), 30 * 60_000)
ClampLeaseMs(leaseMs) ==
    Min(Max(IF leaseMs = NoArg THEN DefaultLeaseMs ELSE leaseMs, MinLeaseMs), MaxLeaseMs)

\* Math.max(1, args.staleMinutes) * 60_000
StaleMs(staleMinutes) == Max(1, staleMinutes) * MsPerMinute

\* .withIndex('by_job_shard', q => q.eq('job', job).eq('shard', shard)): the
\* documents of the table with that key; .unique() is its only element, or null.
ByJobShard(table, job, shard) == {r \in table : r.job = job /\ r.shard = shard}

\* canClaim with a lease that is over at the instant it ends
CanClaimAtLeaseEnd(rows, t, staleMs) ==
    \/ rows = {}
    \/ \E row \in rows : row.leaseUntilMs <= t
    \/ \E row \in rows : row.lastProgressAtMs < t - staleMs

\* canClaim of tryClaim: missing, expired, or stale.
CanClaim(rows, t, staleMs) ==
    \/ rows = {}
    \/ \E row \in rows : row.leaseUntilMs < t
    \/ \E row \in rows : row.lastProgressAtMs < t - staleMs

\* lastProgressAtMs of the document tryClaim writes: row?.lastProgressAtMs ?? t
ClaimProgress(rows, t) ==
    IF rows = {} THEN t ELSE (CHOOSE row \in rows : TRUE).lastProgressAtMs

\* `next` of tryClaim
ClaimDoc(rows, t, job, shard, ownerId, leaseMs, meta) ==
    [job |-> job, shard |-> shard, ownerId |-> ownerId,
     leaseUntilMs |-> t + ClampLeaseMs(leaseMs),
     lastProgressAtMs |-> ClaimProgress(rows, t),
     meta |-> meta, updatedAt |-> t]

\* The table after tryClaim, and its result.
TryClaimOk(table, t, job, shard, staleMinutes) ==
    CanClaim(ByJobShard(table, job, shard), t, StaleMs(staleMinutes))

TryClaimTable(table, t, job, shard, ownerId, leaseMs, staleMinutes, meta) ==
    LET rows == ByJobShard(table, job, shard) IN
    IF ~CanClaim(rows, t, StaleMs(staleMinutes)) THEN table
    ELSE (table \ rows) \cup {ClaimDoc(rows, t, job, shard, ownerId, leaseMs, meta)}

\* The result of renew and of reportProgress: ok, or the reason for not ok.
OwnerCheck(rows, ownerId) ==
    IF rows = {} THEN "missing"
    ELSE IF (CHOOSE row \in rows : TRUE).ownerId # ownerId THEN "not-owner"
    ELSE "ok"

\* A renew that counts as progress
RenewDocWithProgress(row, t, leaseMs, meta) ==
    [row EXCEPT !.leaseUntilMs = t + ClampLeaseMs(leaseMs),
                !.lastProgressAtMs = t,
                !.meta = IF meta = "" THEN row.meta ELSE meta,
                !.updatedAt = t]

\* The fields renew patches.
RenewDoc(row, t, leaseMs, meta) ==
    [row EXCEPT !.leaseUntilMs = t + ClampLeaseMs(leaseMs),
                !.meta = IF meta = "" THEN row.meta ELSE meta,
                !.updatedAt = t]

RenewTable(table, t, job, shard, ownerId, leaseMs, meta) ==
    LET rows == ByJobShard(table, job, shard) IN
    IF OwnerCheck(rows, ownerId) # "ok" THEN table
    ELSE (table \ rows) \cup {RenewDoc(row, t, leaseMs, meta) : row \in rows}

\* The fields reportProgress patches.
ProgressDoc(row, t, meta) ==
    [row EXCEPT !.lastProgressAtMs = t,
                !.meta = IF meta = "" THEN row.meta ELSE meta,
                !.updatedAt = t]

ReportProgressTable(table, t, job, shard, ownerId, meta) ==
    LET rows == ByJobShard(table, job, shard) IN
    IF OwnerCheck(rows, ownerId) # "ok" THEN table
    ELSE (table \ rows) \cup {ProgressDoc(row, t, meta) : row \in rows}

NoCall ==
    [op |-> "none", job |-> "", shard |-> 0, ownerId |-> "", leaseMs |-> NoArg,
     staleMinutes |-> 0, t |-> 0, pre |-> {}, ok |-> FALSE, reason |-> ""]

LeaseInit ==
    /\ now = 0
    /\ shardLeases = {}
    /\ lastCall = NoCall

\* mutation leases:tryClaim
TryClaim(job, shard, ownerId, leaseMs, staleMinutes, meta) ==
    /\ shardLeases' =
         TryClaimTable(shardLeases, now, job, shard, ownerId, leaseMs, staleMinutes, meta)
    /\ lastCall' =
         [op |-> "tryClaim", job |-> job, shard |-> shard, ownerId |-> ownerId,
          leaseMs |-> leaseMs, staleMinutes |-> staleMinutes, t |-> now,
          pre |-> ByJobShard(shardLeases, job, shard),
          ok |-> TryClaimOk(shardLeases, now, job, shard, staleMinutes),
          reason |-> ""]
    /\ UNCHANGED now

\* mutation leases:renew
Renew(job, shard, ownerId, leaseMs, meta) ==
    /\ shardLeases' = RenewTable(shardLeases, now, job, shard, ownerId, leaseMs, meta)
    /\ lastCall' =
         [op |-> "renew", job |-> job, shard |-> shard, ownerId |-> ownerId,
          leaseMs |-> leaseMs, staleMinutes |-> 0, t |-> now,
          pre |-> ByJobShard(shardLeases, job, shard),
          ok |-> OwnerCheck(ByJobShard(shardLeases, job, shard), ownerId) = "ok",
          reason |-> OwnerCheck(ByJobShard(shardLeases, job, shard), ownerId)]
    /\ UNCHANGED now

\* mutation leases:reportProgress
ReportProgress(job, shard, ownerId, meta) ==
    /\ shardLeases' = ReportProgressTable(shardLeases, now, job, shard, ownerId, meta)
    /\ lastCall' =
         [op |-> "reportProgress", job |-> job, shard |-> shard, ownerId |-> ownerId,
          leaseMs |-> NoArg, staleMinutes |-> 0, t |-> now,
          pre |-> ByJobShard(shardLeases, job, shard),
          ok |-> OwnerCheck(ByJobShard(shardLeases, job, shard), ownerId) = "ok",
          reason |-> OwnerCheck(ByJobShard(shardLeases, job, shard), ownerId)]
    /\ UNCHANGED now

----------------------------------------------------------------------------
(* candles_batch_run.sh: one run of the batch worker per node at a time *)

ShardSize == 3      \* n: tickers of the universe that hash to the shard
BATCH_SIZE == 2

Nodes == Owners
JOB_NAME == "candles"
SHARD_INDEX == 0
TFS == <<"1d", "1h">>
LEASE_MS == MinLeaseMs
STALE_MINUTES == 1
RUN_TIMEOUT_MS == 2 * TickMs     \* RUN_TIMEOUT_SEC * 1000

\* The copy of the script with the claim before the work, and the copy that
\* only claims after the run loop.
BatchRun == "candles_batch_run.sh"
BatchRunLateClaim == "part_025"

NoFile == -1
TornFile == -2   \* the file exists and is empty or cut short
NoExit == -1

\* start = int(cur.get('nextIndex', 0)) % max(n, 1), cur read from the cursor file
\*   a file that json.loads cannot read leaves cur = {'nextIndex': 0}
StartIndex(file, n) == (IF file \in {NoFile, TornFile} THEN 0 ELSE file) % Max(n, 1)

\* Python's seq[a:b] for 0 <= a, 0 <= b (0-based, b exclusive, capped at the length)
Slice(seq, a, b) == SubSeq(seq, a + 1, Min(b, Len(seq)))

\* tickers: the shard's list, in the universe's order
Tickers(n) == [i \in 1..n |-> i - 1]

\* sel = tickers[start:end] alone: the batch is cut at the end of the list
SelNoWrap(start, batchSize, n) ==
    Slice(Tickers(n), start, Min(start + batchSize, n))

\* sel = tickers[start:end], wrapped around to batch_size
Sel(start, batchSize, n) ==
    LET head == Slice(Tickers(n), start, Min(start + batchSize, n)) IN
    IF Len(head) < batchSize /\ n > 0
    THEN head \o Slice(Tickers(n), 0, batchSize - Len(head))
    ELSE head

\* next_index = start + batch_size, not reduced
NextIndexNoWrap(start, batchSize, n) == start + batchSize

\* next_index = (start + batch_size) % max(n, 1)
NextIndex(start, batchSize, n) == (start + batchSize) % Max(n, 1)

Idle ==
    [pc |-> "idle", tf |-> 0, done |-> 0, start |-> 0, startedAt |-> 0,
     exit |-> NoExit, log |-> "", claimed |-> FALSE, wroteCandles |-> FALSE,
     wroteCursor |-> FALSE, callFailed |-> FALSE]

\* sys.exit(code) after printing `log`
Exited(run, code, log) ==
    [run EXCEPT !.pc = "done", !.exit = code, !.log = log, !.startedAt = 0]

\* The cursor is loaded and run(tf) starts the backfill of the first timeframe.
Launched(run, file) ==
    [run EXCEPT !.pc = "run", !.tf = 1, !.done = 0,
                !.start = StartIndex(file, ShardSize), !.startedAt = now]

\* The position of the run once the backfill child has finished one more
\* ticker of sel: the child goes on, or it ends with status 0 and the loop
\* starts the next timeframe, or the loop is over.
Advanced(run) ==
    LET len == Len(Sel(run.start, BATCH_SIZE, ShardSize)) IN
    IF run.done + 1 < len THEN [run EXCEPT !.done = run.done + 1, !.wroteCandles = TRUE]
    ELSE IF run.tf < Len(TFS)
         THEN [run EXCEPT !.tf = run.tf + 1, !.done = 0, !.startedAt = now,
                          !.wroteCandles = TRUE]
         ELSE [run EXCEPT !.pc = "claim", !.done = len, !.wroteCandles = TRUE]

WorkerInit ==
    /\ worker = [w \in Nodes |-> Idle]
    /\ cursorFile = [w \in Nodes |-> NoFile]

\* The run starts: "Try to claim lease for this shard BEFORE doing any work."
\* `reach`: the POST to the coordinator gets an answer.
Boot(w) ==
    /\ worker[w].pc \in {"idle", "done"}
    /\ script[w] = BatchRun
    /\ \E reach \in BOOLEAN :
        IF ~reach
        THEN /\ worker' = [worker EXCEPT ![w] =
                  Exited([Idle EXCEPT !.callFailed = TRUE], 0, "lease_error")]
             /\ UNCHANGED shardLeases
        ELSE /\ shardLeases' = TryClaimTable(shardLeases, now, JOB_NAME, SHARD_INDEX, w,
                                             LEASE_MS, STALE_MINUTES, "boot")
             /\ worker' = [worker EXCEPT ![w] =
                  IF TryClaimOk(shardLeases, now, JOB_NAME, SHARD_INDEX, STALE_MINUTES)
                  THEN Launched([Idle EXCEPT !.claimed = TRUE], cursorFile[w])
                  ELSE Exited(Idle, 0, "not_owner")]
    /\ UNCHANGED <<now, lastCall, script, cursorFile, candleVars, apiVars, restVars>>

\* The run of the copy without the first claim starts with the cursor and the work.
BootLateClaim(w) ==
    /\ worker[w].pc \in {"idle", "done"}
    /\ script[w] = BatchRunLateClaim
    /\ worker' = [worker EXCEPT ![w] = Launched(Idle, cursorFile[w])]
    /\ UNCHANGED <<now, leaseVars, script, cursorFile, candleVars, apiVars, restVars>>

\* The backfill child fetches and upserts the candles of the next ticker of sel.
BackfillTicker(w) ==
    /\ worker[w].pc = "run"
    /\ now - worker[w].startedAt < RUN_TIMEOUT_MS
    /\ worker' = [worker EXCEPT ![w] = Advanced(worker[w])]
    /\ UNCHANGED <<now, leaseVars, script, cursorFile, candleVars, apiVars, restVars>>

\* The backfill child ends with a status other than 0: sys.exit(p.returncode)
BackfillFails(w) ==
    /\ worker[w].pc = "run"
    /\ now - worker[w].startedAt < RUN_TIMEOUT_MS
    /\ worker' = [worker EXCEPT ![w] = Exited(worker[w], 1, "")]
    /\ UNCHANGED <<now, leaseVars, script, cursorFile, candleVars, apiVars, restVars>>

\* subprocess.TimeoutExpired: sys.exit(124)
RunTimeout(w) ==
    /\ worker[w].pc = "run"
    /\ now - worker[w].startedAt >= RUN_TIMEOUT_MS
    /\ worker' = [worker EXCEPT ![w] = Exited(worker[w], 124, "run_timeout")]
    /\ UNCHANGED <<now, leaseVars, script, cursorFile, candleVars, apiVars, restVars>>

\* "Try to claim lease for this shard. If we can't, exit quietly." (after the loop)
ClaimAfterRun(w) ==
    /\ worker[w].pc = "claim"
    /\ \E reach \in BOOLEAN :
        IF ~reach
        THEN /\ worker' = [worker EXCEPT ![w] =
                  Exited([worker[w] EXCEPT !.callFailed = TRUE], 0, "lease_error")]
             /\ UNCHANGED shardLeases
        ELSE /\ shardLeases' = TryClaimTable(shardLeases, now, JOB_NAME, SHARD_INDEX, w,
                                             LEASE_MS, STALE_MINUTES, "tickers")
             /\ worker' = [worker EXCEPT ![w] =
                  IF TryClaimOk(shardLeases, now, JOB_NAME, SHARD_INDEX, STALE_MINUTES)
                  THEN [worker[w] EXCEPT !.pc = "cursor", !.claimed = TRUE]
                  ELSE Exited(worker[w], 0, "not_owner")]
    /\ UNCHANGED <<now, lastCall, script, cursorFile, candleVars, apiVars, restVars>>

\* cursor_file.write_text(json.dumps(cur))
WriteCursor(w) ==
    /\ worker[w].pc = "cursor"
    /\ cursorFile' = [cursorFile EXCEPT ![w] =
                        NextIndex(worker[w].start, BATCH_SIZE, ShardSize)]
    /\ worker' = [worker EXCEPT ![w] = [worker[w] EXCEPT !.pc = "report",
                                                         !.wroteCursor = TRUE]]
    /\ UNCHANGED <<now, leaseVars, script, candleVars, apiVars, restVars>>

\* cursor_file.write_text(...) opens the file for writing, which empties it,
\* and then writes: the process is killed in between or part way through.
WriteCursorTorn(w) ==
    /\ worker[w].pc = "cursor"
    /\ cursorFile' = [cursorFile EXCEPT ![w] = TornFile]
    /\ worker' = [worker EXCEPT ![w] = Exited(worker[w], 137, "killed")]
    /\ UNCHANGED <<now, leaseVars, script, candleVars, apiVars, restVars>>

\* "Report progress." Its failure is swallowed; the summary is printed.
ReportAndExit(w) ==
    /\ worker[w].pc = "report"
    /\ \E reach \in BOOLEAN :
        /\ shardLeases' = IF reach
                          THEN ReportProgressTable(shardLeases, now, JOB_NAME,
                                                   SHARD_INDEX, w, "nextIndex")
                          ELSE shardLeases
        /\ worker' = [worker EXCEPT ![w] =
              Exited([worker[w] EXCEPT !.callFailed = ~reach], 0, "summary")]
    /\ UNCHANGED <<now, lastCall, script, cursorFile, candleVars, apiVars, restVars>>

\* The script's process is killed (the node goes down, the allocation is
\* stopped) between any two statements of a run.
Killed(w) ==
    /\ worker[w].pc \in {"run", "claim", "cursor", "report"}
    /\ worker' = [worker EXCEPT ![w] = Exited(worker[w], 137, "killed")]
    /\ UNCHANGED <<now, leaseVars, script, cursorFile, candleVars, apiVars, restVars>>

\* Time passes on the deployment. A backfill child that has reached its
\* timeout is killed before more time passes.
Tick(maxTicks) ==
    /\ now < maxTicks * TickMs
    /\ \A w \in Nodes :
         worker[w].pc = "run" => now - worker[w].startedAt < RUN_TIMEOUT_MS
    /\ now' = now + TickMs
    /\ lastCall' = NoCall
    /\ UNCHANGED <<shardLeases, workerVars, candleVars, apiVars, restVars>>

----------------------------------------------------------------------------
(* candles.ts, schema.ts, health.ts: the Convex candle table *)

CandleTickers == {"FPT"}
CandleTfs == {"1d"}
Ts == {1, 2, 3}     \* unix ms of the bars
Ohlc == {1, 2}      \* the values o, h, l, c, v, source of a candle, as one

\* args.candles: arrays of at most MaxBatch candles
CandleArgs == [ts : Ts, ohlc : Ohlc]
Batches == UNION {[1..n -> CandleArgs] : n \in 0..MaxBatch}

\* A lookup that finds nothing: every candle of a batch is inserted
ExistingCandleNever(table, ticker, tf, ts) == {}

\* .withIndex('by_ticker_tf_ts', q => q.eq('ticker').eq('tf').eq('ts')).unique()
ExistingCandle(table, ticker, tf, ts) ==
    {r \in table : r.ticker = ticker /\ r.tf = tf /\ r.ts = ts}

\* The loop of upsertMany over args.candles: the table and the creation
\* counter after it. id stands for _id and _creationTime: documents are
\* created in the order of their ids.
RECURSIVE UpsertLoop(_, _, _, _, _, _)
UpsertLoop(table, id, ticker, tf, batch, t) ==
    IF batch = <<>>
    THEN [table |-> table, nextId |-> id, inserted |-> 0, updated |-> 0]
    ELSE LET k == Head(batch)
             existing == ExistingCandle(table, ticker, tf, k.ts)
             doc == [id |-> id, ticker |-> ticker, tf |-> tf, ts |-> k.ts,
                     ohlc |-> k.ohlc, ingestedAt |-> t]
             rest == IF existing = {}
                     THEN UpsertLoop(table \cup {doc}, id + 1, ticker, tf, Tail(batch), t)
                     ELSE UpsertLoop((table \ existing) \cup
                                       {[r EXCEPT !.ohlc = k.ohlc, !.ingestedAt = t] :
                                           r \in existing},
                                     id, ticker, tf, Tail(batch), t)
         IN IF existing = {}
            THEN [rest EXCEPT !.inserted = rest.inserted + 1]
            ELSE [rest EXCEPT !.updated = rest.updated + 1]

\* .withIndex('by_ticker_tf', q => q.eq('ticker').eq('tf')).order('desc'): the
\* index ends with _creationTime, so the order is newest document first.
RECURSIVE NewestFirst(_)
NewestFirst(rows) ==
    IF rows = {} THEN <<>>
    ELSE LET r == CHOOSE x \in rows : \A y \in rows : y.id <= x.id
         IN <<r>> \o NewestFirst(rows \ {r})

ByTickerTf(table, ticker, tf) == {r \in table : r.ticker = ticker /\ r.tf = tf}

\* query health:candlesLatestTs: .order('desc').first(), row ? {ts} : null
\* (here the set of the ts returned: empty for null)
CandlesLatestTs(table, ticker, tf) ==
    LET rows == NewestFirst(ByTickerTf(table, ticker, tf))
    IN IF rows = <<>> THEN {} ELSE {rows[1].ts}

\* rows.sort((a, b) => a.ts - b.ts), of rows as a set
RECURSIVE SortByTs(_)
SortByTs(rows) ==
    IF rows = {} THEN <<>>
    ELSE LET r == CHOOSE x \in rows : \A y \in rows : x.ts < y.ts \/ (x.ts = y.ts /\ x.id <= y.id)
         IN <<r>> \o SortByTs(rows \ {r})

\* Math.min(Math.max(args.limit ?? 500, 10), 5000)
ClampLatestLimit(limit) == Min(Max(IF limit = NoArg THEN 500 ELSE limit, 10), 5000)

\* query candles:latest: the `limit` newest documents, ascending by ts
Latest(table, ticker, tf, limit) ==
    LET newest == NewestFirst(ByTickerTf(table, ticker, tf))
        taken == SubSeq(newest, 1, Min(ClampLatestLimit(limit), Len(newest)))
    IN SortByTs({taken[i] : i \in 1..Len(taken)})

CandleInit ==
    /\ candles = {}
    /\ nextId = 1
    /\ lastUpsert = [inserted |-> 0, updated |-> 0]

\* mutation candles:upsertMany, one transaction
UpsertMany(ticker, tf, batch) ==
    LET after == UpsertLoop(candles, nextId, ticker, tf, batch, now) IN
    /\ candles' = after.table
    /\ nextId' = after.nextId
    /\ lastUpsert' = [inserted |-> after.inserted, updated |-> after.updated]
    /\ UNCHANGED <<now, leaseVars, workerVars, apiVars, restVars>>

----------------------------------------------------------------------------
(* deploy/history-api/server.mjs: GET /candles *)

API_KEY == "secret"
ApiKeys == {API_KEY, "guess", ""}

\* A query parameter is absent, or the string of a number (a record with
\* the number it spells), or a string that spells no number.
Absent == [kind |-> "absent", n |-> 0]
Str(n) == [kind |-> "digits", n |-> n]
EmptyStr == [kind |-> "empty", n |-> 0]
NotANumber == -1   \* NaN, where a number is expected
Text == [kind |-> "text", n |-> NotANumber]

\* JavaScript truthiness of a query parameter: a non-empty string
Truthy(param) == param.kind \in {"digits", "text"}

\* Number(param) of a string of digits
Number(param) == param.n

\* authOk(req)
AuthOk(key) == IF API_KEY = "" THEN FALSE ELSE key = API_KEY

\* String(req.query.ticker || '').trim().toUpperCase()
UpperCase(ticker) == IF ticker = "fpt" THEN "FPT" ELSE ticker

\* Math.min(Math.max(Number(req.query.limit || 500), 1), 2000)
\*   Math.max and Math.min of NaN are NaN
CandlesLimit(limit) ==
    IF Truthy(limit) /\ limit.kind = "text" THEN NotANumber
    ELSE Min(Max(IF Truthy(limit) THEN Number(limit) ELSE 500, 1), 2000)

\* A page that starts at beforeTs: AND ts <= $3
CandlesWhereFromBeforeTs(table, ticker, tf, beforeTs) ==
    {r \in table :
        /\ r.ticker = ticker /\ r.tf = tf
        /\ Truthy(beforeTs) => r.ts <= Number(beforeTs)}

\* WHERE ticker = $1 AND tf = $2 [AND ts < $3]
CandlesWhere(table, ticker, tf, beforeTs) ==
    {r \in table :
        /\ r.ticker = ticker /\ r.tf = tf
        /\ Truthy(beforeTs) => r.ts < Number(beforeTs)}

\* ORDER BY ts DESC LIMIT n, of rows as a set
RECURSIVE OrderByTsDesc(_, _)
OrderByTsDesc(rows, n) ==
    IF rows = {} \/ n <= 0 THEN <<>>
    ELSE LET r == CHOOSE x \in rows : \A y \in rows : y.ts <= x.ts
         IN <<r.ts>> \o OrderByTsDesc(rows \ {r}, n - 1)

\* pool.query rejects: LIMIT $n is a bigint and the parameter is NaN
PgLimitError == "invalid input syntax for type bigint: \"NaN\""

\* The response of GET /candles: its status and the ts of its rows
CandlesResponse(table, key, ticker, tf, beforeTs, limit) ==
    IF ~AuthOk(key) THEN [status |-> 401, error |-> "unauthorized", rows |-> <<>>]
    ELSE IF UpperCase(ticker) = "" \/ tf = ""
    THEN [status |-> 400, error |-> "missing ticker/tf", rows |-> <<>>]
    ELSE IF CandlesLimit(limit) = NotANumber
    THEN [status |-> 500, error |-> PgLimitError, rows |-> <<>>]
    ELSE [status |-> 200, error |-> "",
          rows |-> OrderByTsDesc(CandlesWhere(table, UpperCase(ticker), tf, beforeTs),
                                 CandlesLimit(limit))]

PagedTicker == "FPT"
PagedTf == "1d"
BarTs == 0..MaxBarTs
LimitParams == {Absent, EmptyStr, Str(0), Str(1), Str(2)}

\* The rows of other pairs that the warehouse holds beside the paged bars.
OtherRows == {[ticker |-> "FPT", tf |-> "1h", ts |-> 2],
              [ticker |-> "VNM", tf |-> "1d", ts |-> 1]}

\* The warehouse holding the bars at the given ts for the paged pair
Warehouse(bars) ==
    OtherRows \cup {[ticker |-> PagedTicker, tf |-> PagedTf, ts |-> ts] : ts \in bars}

NoPage == [phase |-> "idle", limit |-> Absent, beforeTs |-> Absent,
           seen |-> <<>>, page |-> <<>>, status |-> 0]

\* x-api-key headers of a request: none, or a string
NoHeader == "(none)"
Headers == ApiKeys \cup {NoHeader}

Endpoints == {"/healthz", "/candles", "/latest"}

\* e.message of what pool.query throws when the warehouse is down
PgErrorMessage == "connect ECONNREFUSED 100.103.201.10:5432"

NoRequest == [endpoint |-> "", key |-> NoHeader, status |-> 0, queried |-> FALSE,
              error |-> ""]

\* GET /healthz: SELECT 1, whoever asks
Healthz(key, dbUp) ==
    [endpoint |-> "/healthz", key |-> key,
     status |-> IF dbUp THEN 200 ELSE 500, queried |-> TRUE,
     error |-> IF dbUp THEN "" ELSE "db_unreachable"]

\* GET /candles: status and whether pool.query ran
Candles(key, ticker, tf, dbUp) ==
    LET res == CandlesResponse(pgCandles, key, ticker, tf, Absent, Absent) IN
    [endpoint |-> "/candles", key |-> key,
     status |-> IF res.status = 200 /\ ~dbUp THEN 500 ELSE res.status,
     queried |-> res.status = 200,
     error |-> IF res.status # 200 THEN res.error
               ELSE IF ~dbUp THEN PgErrorMessage ELSE ""]

\* GET /latest: status and whether pool.query ran
LatestSnapshot(key, tf, dbUp) ==
    [endpoint |-> "/latest", key |-> key,
     status |-> IF ~AuthOk(key) THEN 401
                ELSE IF tf = "" THEN 400
                ELSE IF dbUp THEN 200 ELSE 500,
     queried |-> AuthOk(key) /\ tf # "",
     error |-> IF ~AuthOk(key) THEN "unauthorized"
               ELSE IF tf = "" THEN "missing tf"
               ELSE IF dbUp THEN "" ELSE PgErrorMessage]

ApiInit ==
    /\ pgCandles = Warehouse({})
    /\ pager = NoPage
    /\ httpLog = NoRequest

\* A request to an endpoint of the service, the warehouse being up or down.
Request(endpoint, key, ticker, tf, dbUp) ==
    /\ httpLog' = CASE endpoint = "/healthz" -> Healthz(key, dbUp)
                     [] endpoint = "/candles" -> Candles(key, ticker, tf, dbUp)
                     [] endpoint = "/latest" -> LatestSnapshot(key, tf, dbUp)
    /\ UNCHANGED <<now, leaseVars, workerVars, candleVars, pgCandles, pager, restVars>>

\* The client asks for the first page: no beforeTs.
FirstPage(ticker, limit) ==
    LET res == CandlesResponse(pgCandles, API_KEY, ticker, PagedTf, Absent, limit) IN
    /\ pager.phase = "idle"
    /\ pager' = [phase |-> IF res.rows = <<>> THEN "done" ELSE "paging",
                 limit |-> limit, beforeTs |-> Absent,
                 seen |-> res.rows, page |-> res.rows, status |-> res.status]
    /\ UNCHANGED <<now, leaseVars, workerVars, candleVars, pgCandles, httpLog, restVars>>

\* The client asks for the next page: beforeTs = the smallest ts of the last page.
NextPage ==
    LET beforeTs == Str(pager.page[Len(pager.page)])
        res == CandlesResponse(pgCandles, API_KEY, PagedTicker, PagedTf, beforeTs,
                               pager.limit)
    IN /\ pager.phase = "paging"
       /\ pager' = [pager EXCEPT !.phase = IF res.rows = <<>> THEN "done" ELSE "paging",
                                 !.beforeTs = beforeTs,
                                 !.seen = pager.seen \o res.rows,
                                 !.page = res.rows, !.status = res.status]
       /\ UNCHANGED <<now, leaseVars, workerVars, candleVars, pgCandles, httpLog, restVars>>

----------------------------------------------------------------------------
(* repairQueue.ts: the candle repair queue *)

\* (ticker, tf, windowStartTs, windowEndTs) of the windows enqueued
Windows == {[ticker |-> "FPT", tf |-> "1d", windowStartTs |-> s, windowEndTs |-> 200] :
               s \in {0, 100}}
ExpectedBars == {1, 2}
Notes == {"", "gap"}          \* "" stands for an absent note
ErrorLens == {500}            \* args.error, as the length of the string
NoError == -1                 \* lastError absent

WindowOf(row) ==
    [ticker |-> row.ticker, tf |-> row.tf,
     windowStartTs |-> row.windowStartTs, windowEndTs |-> row.windowEndTs]

\* .withIndex('by_ticker_tf_window', ...).unique(): the documents of the window
ExistingWindow(table, w) == {row \in table : WindowOf(row) = w}

\* ctx.db.get(id)
GetRow(table, id) == {row \in table : row.id = id}

\* The document enqueue inserts.
QueuedDoc(id, w, expectedBars, note, t) ==
    [id |-> id, ticker |-> w.ticker, tf |-> w.tf, windowStartTs |-> w.windowStartTs,
     windowEndTs |-> w.windowEndTs, expectedBars |-> expectedBars, note |-> note,
     status |-> "queued", attempts |-> 0, lastError |-> NoError,
     createdAt |-> t, updatedAt |-> t]

\* The table after enqueue: a done document is kept, any other existing
\* document is patched, and a window without a document gets one.
EnqueueTable(table, id, w, expectedBars, note, t) ==
    LET existing == ExistingWindow(table, w) IN
    IF existing = {} THEN table \cup {QueuedDoc(id, w, expectedBars, note, t)}
    ELSE (table \ existing) \cup
           {IF row.status = "done" THEN row
            ELSE [row EXCEPT !.expectedBars = expectedBars, !.note = note,
                             !.updatedAt = t] : row \in existing}

\* args.error.slice(0, 400), as the length of the string
SliceError(len) == Min(len, 400)

\* query nextQueued: the queued documents, oldest first, at most `limit`
ClampQueueLimit(limit) == Min(Max(IF limit = NoArg THEN 10 ELSE limit, 1), 50)

RECURSIVE OldestFirst(_)
OldestFirst(rows) ==
    IF rows = {} THEN <<>>
    ELSE LET r == CHOOSE x \in rows : \A y \in rows :
                      x.createdAt < y.createdAt \/ (x.createdAt = y.createdAt /\ x.id <= y.id)
         IN <<r>> \o OldestFirst(rows \ {r})

NextQueued(table, limit) ==
    LET rows == OldestFirst({row \in table : row.status = "queued"})
    IN SubSeq(rows, 1, Min(ClampQueueLimit(limit), Len(rows)))

NoQueueCall == [op |-> "none", id |-> 0, pre |-> {}, result |-> ""]

QueueInit ==
    /\ repairQueue = {}
    /\ queueNextId = 1
    /\ queueCall = NoQueueCall

----------------------------------------------------------------------------
(* simplize_client.mjs, simplize_ingest.mjs: the source client and its loop *)

retries == 3
backoffMs == 500

\* How an attempt ends: fetch throws (network error, DNS failure, abort on
\* timeout), or it resolves with a response of some HTTP status.
Threw(err) == [err |-> err, status |-> 0]
Responded(status) == [err |-> "", status |-> status]
Outcomes == {Threw("network"), Threw("dns"), Threw("timeout"),
             Responded(200), Responded(404), Responded(500)}

\* Math.pow(2, attempt)
RECURSIVE Pow2(_)
Pow2(k) == IF k = 0 THEN 1 ELSE 2 * Pow2(k - 1)

\* res.ok
ResOk(status) == status >= 200 /\ status <= 299

NoFetch == [pc |-> "idle", attempt |-> 0, history |-> <<>>, delays |-> <<>>]

\* tickers of the run: args.tickers
IngestTickers == <<"FPT", "VNM">>

NoIngest == [pc |-> "idle", i |-> 0, results |-> 0, stateWritten |-> FALSE, exit |-> NoExit]

ClientInit ==
    /\ client = NoFetch
    /\ ingest = NoIngest

\* The call after an attempt that ended with `outcome`: a response of any
\* status is returned; after a throw the loop sleeps and goes on while
\* attempt < retries, and rethrows the last error after the last attempt.
Attempted(call, outcome) ==
    LET seen == [call EXCEPT !.history = Append(call.history, outcome)] IN
    IF outcome.err = "" THEN [seen EXCEPT !.pc = "returned"]
    ELSE IF call.attempt < retries
         THEN [seen EXCEPT !.pc = "sleep",
                           !.delays = Append(call.delays, backoffMs * Pow2(call.attempt))]
         ELSE [seen EXCEPT !.pc = "thrown"]

\* main(): the loop over args.tickers starts with the first ticker's fetch.
StartIngest ==
    /\ ingest.pc = "idle"
    /\ ingest' = [NoIngest EXCEPT !.pc = "loop", !.i = 1]
    /\ client' = [NoFetch EXCEPT !.pc = "try"]
    /\ UNCHANGED <<now, leaseVars, workerVars, candleVars, apiVars, lastVars, queueVars, sqlVars, moreVars>>

\* One attempt of fetchJsonWithRetry
FetchAttempt(outcome) ==
    /\ client.pc = "try"
    /\ client' = Attempted(client, outcome)
    /\ UNCHANGED <<now, leaseVars, workerVars, candleVars, apiVars, lastVars, queueVars, ingest, sqlVars, moreVars>>

\* await sleep(...) is over: attempt++
BackoffOver ==
    /\ client.pc = "sleep"
    /\ client' = [client EXCEPT !.pc = "try", !.attempt = client.attempt + 1]
    /\ UNCHANGED <<now, leaseVars, workerVars, candleVars, apiVars, lastVars, queueVars, ingest, sqlVars, moreVars>>

\* The block of the ticker is there: files written, hash and result kept; the
\* loop goes on, and after the last ticker the state file is written.
IngestTicker ==
    /\ ingest.pc = "loop" /\ client.pc = "returned"
    /\ IF ingest.i < Len(IngestTickers)
       THEN /\ ingest' = [ingest EXCEPT !.i = ingest.i + 1, !.results = ingest.results + 1]
            /\ client' = [NoFetch EXCEPT !.pc = "try"]
       ELSE /\ ingest' = [ingest EXCEPT !.pc = "done", !.results = ingest.results + 1,
                                        !.stateWritten = TRUE, !.exit = 0]
            /\ client' = NoFetch
    /\ UNCHANGED <<now, leaseVars, workerVars, candleVars, apiVars, lastVars, queueVars, sqlVars, moreVars>>

\* The client threw: main().catch prints the error and process.exit(1)
IngestCrash ==
    /\ ingest.pc = "loop" /\ client.pc = "thrown"
    /\ ingest' = [ingest EXCEPT !.pc = "done", !.exit = 1]
    /\ UNCHANGED <<now, leaseVars, workerVars, candleVars, apiVars, lastVars, queueVars, client, sqlVars, moreVars>>

----------------------------------------------------------------------------
(* Registry database (SQLite): table article_symbols and upsertArticleSymbol. *)
(* A confidence is a REAL of two decimals, kept here in hundredths.           *)

Urls == {"u1"}
LinkTickers == {"FPT", "VNM"}
\* hit.method of the linker, and the default of upsertArticleSymbol
Methods == {"title_paren", "body_token", "title_regex"}
DefaultConfidence == 50
\* 0.5 (the default), 0.6 (token) and 0.95 (paren)
Confidences == {DefaultConfidence, 60, 95}

\* PRIMARY KEY (url, ticker, method): the row an INSERT conflicts with
ArticleSymbolConflict(table, url, ticker, method) ==
    {r \in table : r.url = url /\ r.ticker = ticker /\ r.method = method}

\* INSERT ... ON CONFLICT(url, ticker, method) DO UPDATE SET
\*   confidence = MAX(article_symbols.confidence, excluded.confidence)
ArticleSymbolsUpsert(table, url, ticker, confidence, method) ==
    LET hit == ArticleSymbolConflict(table, url, ticker, method) IN
    IF hit = {}
    THEN table \cup {[url |-> url, ticker |-> ticker,
                      confidence |-> confidence, method |-> method]}
    ELSE (table \ hit) \cup
         {[r EXCEPT !.confidence = Max(r.confidence, confidence)] : r \in hit}

\* The rows of one (url, ticker)
LinksOf(table, url, ticker) == {r \in table : r.url = url /\ r.ticker = ticker}

LinkInit ==
    /\ articleSymbols = {}
    /\ observedMax = [pair \in Urls \X LinkTickers |-> 0]

upsertArticleSymbol(url, ticker, confidence, method) ==
    /\ articleSymbols' = ArticleSymbolsUpsert(articleSymbols, url, ticker, confidence, method)
    /\ observedMax' = [observedMax EXCEPT
                         ![<<url, ticker>>] = Max(@, confidence)]
    /\ UNCHANGED <<now, leaseVars, workerVars, candleVars, apiVars, lastVars, queueVars, clientVars,
                   latestVars, fiVars, moreVars>>

----------------------------------------------------------------------------
(* Registry database (SQLite): table fi_latest and replaceFiLatest.  The    *)
(* rows are of one (ticker, period, statement); fiLatest is the committed   *)
(* table, the one another connection or a later run reads.                  *)

MaxFiRows == 2
SqlNull == "NULL"
PeriodDates == {"2025-12-31", SqlNull}
Metrics == {"is1", "is2"}
FiLatestRows == [periodDate : PeriodDates, metric : Metrics, value : {10}]
FiLatestBatches == UNION {[1..n -> FiLatestRows] : n \in 0..MaxFiRows}

\* PRIMARY KEY (ticker, period, statement, periodDate, metric) of a rowid
\* table: NULL is allowed in periodDate and is distinct from every value,
\* another NULL included
SamePk(r1, r2) ==
    /\ r1.periodDate # SqlNull /\ r2.periodDate # SqlNull
    /\ r1.periodDate = r2.periodDate /\ r1.metric = r2.metric

\* The table that holds exactly rows, inserted in order into an empty table
TableOf(rows) ==
    {[rowid |-> i, periodDate |-> rows[i].periodDate, metric |-> rows[i].metric,
      value |-> rows[i].value] : i \in 1..Len(rows)}

NoReplace == [pc |-> "idle", rows |-> <<>>, i |-> 1, prev |-> {}, txn |-> {}]

LatestInit ==
    /\ fiLatest = {}
    /\ replaceCall = NoReplace

\* db.exec('DELETE FROM fi_latest') in autocommit mode, then
\* if (!rows?.length) return; else prepare and BEGIN
replaceFiLatest(rows) ==
    /\ replaceCall.pc # "insert"
    /\ fiLatest' = {}
    /\ replaceCall' = [pc |-> IF Len(rows) = 0 THEN "returned" ELSE "insert",
                       rows |-> rows, i |-> 1, prev |-> fiLatest, txn |-> {}]
    /\ UNCHANGED <<now, leaseVars, workerVars, candleVars, apiVars, lastVars, queueVars, clientVars,
                   linkVars, fiVars, moreVars>>

\* stmt.run(...) of rows[i] inside the transaction; a primary key that is
\* already in the transaction throws: ROLLBACK and rethrow
ReplaceInsertRow ==
    /\ replaceCall.pc = "insert" /\ replaceCall.i <= Len(replaceCall.rows)
    /\ LET r == replaceCall.rows[replaceCall.i] IN
       IF \E t \in replaceCall.txn : SamePk(t, r)
       THEN replaceCall' = [replaceCall EXCEPT !.pc = "thrown", !.txn = {}]
       ELSE replaceCall' = [replaceCall EXCEPT
                !.i = @ + 1,
                !.txn = @ \cup {[rowid |-> replaceCall.i, periodDate |-> r.periodDate,
                                 metric |-> r.metric, value |-> r.value]}]
    /\ UNCHANGED <<now, leaseVars, workerVars, candleVars, apiVars, lastVars, queueVars, clientVars,
                   linkVars, fiLatest, fiVars, moreVars>>

\* db.exec('COMMIT') after the loop
ReplaceCommit ==
    /\ replaceCall.pc = "insert" /\ replaceCall.i > Len(replaceCall.rows)
    /\ fiLatest' = replaceCall.txn
    /\ replaceCall' = [replaceCall EXCEPT !.pc = "returned", !.txn = {}]
    /\ UNCHANGED <<now, leaseVars, workerVars, candleVars, apiVars, lastVars, queueVars, clientVars,
                   linkVars, fiVars, moreVars>>

\* The process dies between BEGIN and COMMIT: the open transaction is lost
ReplaceCrash ==
    /\ replaceCall.pc = "insert"
    /\ replaceCall' = [replaceCall EXCEPT !.pc = "crashed", !.txn = {}]
    /\ UNCHANGED <<now, leaseVars, workerVars, candleVars, apiVars, lastVars, queueVars, clientVars,
                   linkVars, fiLatest, fiVars, moreVars>>

----------------------------------------------------------------------------
(* Simplize database (SQLite): table fi_points and upsertRows.  The rows    *)
(* are of one (ticker, period, statement); a row of the table carries its   *)
(* rowid, which is what tells two rows of equal columns apart.              *)

MaxFiRowid == 3
\* value, periodDateName and fetchedAt of one upsert
FiPayloads == {[value |-> 10, periodDateName |-> "Q4", fetchedAt |-> "t1"],
               [value |-> 11, periodDateName |-> "Q4/2025", fetchedAt |-> "t2"]}
NoPayload == [value |-> 0, periodDateName |-> "", fetchedAt |-> ""]
FiKeys == PeriodDates \X Metrics
FiRows == [periodDate : PeriodDates, metric : Metrics, payload : FiPayloads]
FiBatches == UNION {[1..n -> FiRows] : n \in 0..MaxFiRows}

FiRow(rowid, r) ==
    [rowid |-> rowid, periodDate |-> r.periodDate, metric |-> r.metric,
     value |-> r.payload.value, periodDateName |-> r.payload.periodDateName,
     fetchedAt |-> r.payload.fetchedAt]

\* INSERT ... ON CONFLICT(ticker, period, statement, periodDate, metric)
\* DO UPDATE SET value, periodDateName, fetchedAt = excluded.*
\* db is [table, next]: the rows and the rowid of the next insert
FiUpsertRow(db, r) ==
    LET hit == {t \in db.table : SamePk(t, r)} IN
    IF hit = {}
    THEN [table |-> db.table \cup {FiRow(db.next, r)}, next |-> db.next + 1]
    ELSE [table |-> (db.table \ hit) \cup {FiRow(t.rowid, r) : t \in hit},
          next |-> db.next]

\* for (const r of rows) stmt.run(...) between BEGIN and COMMIT
RECURSIVE FiUpsertLoop(_, _)
FiUpsertLoop(db, rows) ==
    IF rows = <<>> THEN db
    ELSE FiUpsertLoop(FiUpsertRow(db, Head(rows)), Tail(rows))

\* The payload each key was last upserted with
RECURSIVE FiLastAfter(_, _)
FiLastAfter(last, rows) ==
    IF rows = <<>> THEN last
    ELSE FiLastAfter([last EXCEPT ![<<Head(rows).periodDate, Head(rows).metric>>] =
                                      Head(rows).payload],
                     Tail(rows))

NoFiCall == [rows |-> <<>>, pre |-> {}, again |-> FALSE]

FiInit ==
    /\ fiPoints = {}
    /\ fiNextRowid = 1
    /\ fiLastUpsert = [k \in FiKeys |-> NoPayload]
    /\ fiCall = NoFiCall

upsertRows(rows) ==
    LET db == FiUpsertLoop([table |-> fiPoints, next |-> fiNextRowid], rows) IN
    /\ db.next <= MaxFiRowid + 1
    /\ fiPoints' = db.table
    /\ fiNextRowid' = db.next
    /\ fiLastUpsert' = FiLastAfter(fiLastUpsert, rows)
    /\ fiCall' = [rows |-> rows, pre |-> fiPoints,
                  again |-> fiCall # NoFiCall /\ fiCall.rows = rows]
    /\ UNCHANGED <<now, leaseVars, workerVars, candleVars, apiVars, lastVars, queueVars, clientVars,
                   linkVars, latestVars, moreVars>>

SqlInit == LinkInit /\ LatestInit /\ FiInit

\* mutation repairQueue:enqueue
Enqueue(w, expectedBars, note) ==
    LET existing == ExistingWindow(repairQueue, w) IN
    /\ repairQueue' = EnqueueTable(repairQueue, queueNextId, w, expectedBars, note, now)
    /\ queueNextId' = IF existing = {} THEN queueNextId + 1 ELSE queueNextId
    /\ queueCall' = [op |-> "enqueue",
                     id |-> IF existing = {} THEN queueNextId
                            ELSE (CHOOSE row \in existing : TRUE).id,
                     pre |-> existing,
                     result |-> IF existing = {} THEN "queued" ELSE "deduped"]
    /\ UNCHANGED <<now, leaseVars, workerVars, candleVars, apiVars, lastVars, clientVars, sqlVars, moreVars>>

\* markRunning without the test of row.status: every call patches and answers ok
MarkRunningUnguarded(table, id, t) ==
    LET rows == GetRow(table, id) IN
    [table |-> (table \ rows) \cup
                 {[row EXCEPT !.status = "running", !.attempts = row.attempts + 1,
                              !.updatedAt = t] : row \in rows},
     result |-> IF rows = {} THEN "not found" ELSE "ok"]

\* The handler of markRunning at time t: the table it leaves and what it
\* answers ({ok: true}, {ok: false, status}, or the throw 'not found')
MarkRunningOutcome(table, id, t) ==
    LET rows == GetRow(table, id) IN
    [table |-> (table \ rows) \cup
                 {IF row.status # "queued" THEN row
                  ELSE [row EXCEPT !.status = "running", !.attempts = row.attempts + 1,
                                   !.updatedAt = t] : row \in rows},
     result |-> IF rows = {} THEN "not found"
                ELSE IF \E row \in rows : row.status # "queued"
                THEN "not ok" ELSE "ok"]

\* mutation repairQueue:markRunning
MarkRunning(id) ==
    LET rows == GetRow(repairQueue, id)
        out == MarkRunningOutcome(repairQueue, id, now) IN
    /\ repairQueue' = out.table
    /\ queueCall' = [op |-> "markRunning", id |-> id, pre |-> rows,
                     result |-> out.result]
    /\ UNCHANGED <<now, leaseVars, workerVars, candleVars, apiVars, lastVars, queueNextId, clientVars, sqlVars, moreVars>>

\* mutation repairQueue:markDone (ctx.db.patch throws when the id has no document)
MarkDone(id) ==
    LET rows == GetRow(repairQueue, id) IN
    /\ repairQueue' =
         (repairQueue \ rows) \cup
           {[row EXCEPT !.status = "done", !.updatedAt = now, !.lastError = NoError] :
               row \in rows}
    /\ queueCall' = [op |-> "markDone", id |-> id, pre |-> rows,
                     result |-> IF rows = {} THEN "not found" ELSE "ok"]
    /\ UNCHANGED <<now, leaseVars, workerVars, candleVars, apiVars, lastVars, queueNextId, clientVars, sqlVars, moreVars>>

\* mutation repairQueue:markError
MarkError(id, errorLen) ==
    LET rows == GetRow(repairQueue, id) IN
    /\ repairQueue' =
         (repairQueue \ rows) \cup
           {[row EXCEPT !.status = "error", !.updatedAt = now,
                        !.lastError = SliceError(errorLen)] : row \in rows}
    /\ queueCall' = [op |-> "markError", id |-> id, pre |-> rows,
                     result |-> IF rows = {} THEN "not found" ELSE "ok"]
    /\ UNCHANGED <<now, leaseVars, workerVars, candleVars, apiVars, lastVars, queueNextId, clientVars, sqlVars, moreVars>>

----------------------------------------------------------------------------
(* simplize_ingest.mjs with fetchTickerBlock and blockHash: one run for one *)
(* ticker of period Q.  sha256 is taken as free of collisions: the hash of  *)
(* a block is written as the block it was computed from.                    *)

MaxFundMs == 4
FundTickers == {"FPT", "VNM"}
\* What the seven endpoints answer: two bodies with one metric item each, and
\* one with no items
Upstreams == {"d1", "d2", "empty"}
FetchTakes == {1, 2}

\* fetchTickerBlock: {ticker, period, size, fetchedAt: new Date(), summary, data}
FetchTickerBlock(ticker, data, at) ==
    [ticker |-> ticker, period |-> "Q", fetchedAt |-> at, data |-> data]
NoBlock == [ticker |-> "", period |-> "", fetchedAt |-> 0, data |-> ""]

\* blockHash(block): sha256 of stableStringify of the whole block
BlockHash(block) == [sha256 |-> block]
NoHash == [sha256 |-> NoBlock]

\* normalizeBlock(block).length
NormalizedRows(block) == IF block.data = "empty" THEN 0 ELSE 1

NoFundRun ==
    [ticker |-> "", data |-> "", sameUpstream |-> FALSE, changed |-> FALSE,
     snapshotsBefore |-> {}, ndjsonBefore |-> 0, latestWritten |-> FALSE]

FundInit ==
    /\ fundDisk = [hashes |-> [t \in FundTickers |-> NoHash],
                   latest |-> [t \in FundTickers |-> NoBlock],
                   snapshots |-> {},
                   ndjson |-> [t \in FundTickers |-> 0]]
    /\ fundRun = NoFundRun

\* main() with --tickers ticker: the run starts at now (stamp), the block is
\* fetched took ms later, the files and state.json are written
SimplizeIngest(ticker, data, took) ==
    LET stamp == now
        block == FetchTickerBlock(ticker, data, now + took)
        hash == BlockHash(block)
        prevHash == fundDisk.hashes[ticker]
        changed == prevHash # hash
        rows == NormalizedRows(block)
    IN
    /\ now + took <= MaxFundMs
    /\ now' = now + took
    /\ fundDisk' =
         [hashes |-> [fundDisk.hashes EXCEPT ![ticker] = hash],
          latest |-> [fundDisk.latest EXCEPT ![ticker] = block],
          snapshots |-> IF changed THEN fundDisk.snapshots \cup {<<ticker, stamp>>}
                        ELSE fundDisk.snapshots,
          ndjson |-> IF changed /\ rows > 0
                     THEN [fundDisk.ndjson EXCEPT ![ticker] = @ + rows]
                     ELSE fundDisk.ndjson]
    /\ fundRun' = [ticker |-> ticker, data |-> data,
                   sameUpstream |-> /\ fundDisk.latest[ticker] # NoBlock
                                    /\ fundDisk.latest[ticker].data = data,
                   changed |-> changed,
                   snapshotsBefore |-> fundDisk.snapshots,
                   ndjsonBefore |-> fundDisk.ndjson[ticker],
                   latestWritten |-> TRUE]
    /\ UNCHANGED <<leaseVars, workerVars, candleVars, apiVars, lastVars, queueVars, clientVars,
                   sqlVars, newsVars, pureVars>>

----------------------------------------------------------------------------
(* simplize_pipeline.mjs: stableStringify and blockHash over JSON values.   *)
(* A JSON value is [t, v]: its type and its content; the content of an     *)
(* object is the sequence of its <<key, value>> in insertion order.         *)

JNull == [t |-> "null", v |-> 0]
JNum(n) == [t |-> "num", v |-> n]
JStr(s) == [t |-> "str", v |-> s]
JArr(items) == [t |-> "arr", v |-> items]
JObj(entries) == [t |-> "obj", v |-> entries]

MaxItems == 2
\* The keys of the objects, in the order of their UTF-16 code units
KeyOrder == <<"a", "b">>
JKeys == {KeyOrder[i] : i \in 1..Len(KeyOrder)}
JAtoms == {JNull, JNum(1), JStr("1")}

SeqsUpTo(S, n) == UNION {[1..k -> S] : k \in 0..n}
\* Entries of an object: no key twice
EntriesOf(S) ==
    {e \in SeqsUpTo(JKeys \X S, MaxItems) : \A i, j \in 1..Len(e) : e[i][1] = e[j][1] => i = j}

\* Values of depth one, the ones nested in values of depth two, and all of them
JFlat == JAtoms \cup {JArr(s) : s \in SeqsUpTo(JAtoms, MaxItems)}
               \cup {JObj(e) : e \in EntriesOf(JAtoms)}
JNested == {JNum(1), JArr(<<JNum(1), JNull>>), JArr(<<JNull, JNum(1)>>),
            JObj(<<<<"a", JNum(1)>>, <<"b", JNull>>>>),
            JObj(<<<<"b", JNull>>, <<"a", JNum(1)>>>>),
            JObj(<<<<"a", JNull>>, <<"b", JNum(1)>>>>)}
JsonValues == JFlat \cup {JArr(s) : s \in SeqsUpTo(JNested, MaxItems)}
                    \cup {JObj(e) : e \in EntriesOf(JNested)}

\* JSON.stringify of null, a number or a string
JsonStringify(x) ==
    IF x.t = "null" THEN "null"
    ELSE IF x.t = "num" THEN ToString(x.v)
    ELSE "\"" \o x.v \o "\""

\* Array.prototype.join
RECURSIVE Join(_, _)
Join(strs, sep) ==
    IF strs = <<>> THEN ""
    ELSE IF Len(strs) = 1 THEN strs[1]
    ELSE strs[1] \o sep \o Join(Tail(strs), sep)

\* Object.keys(obj): the keys in insertion order
ObjectKeys(obj) == [i \in 1..Len(obj.v) |-> obj.v[i][1]]
\* obj[k]
Member(obj, k) == (CHOOSE i \in 1..Len(obj.v) : obj.v[i][1] = k) 

KeyRank(k) == CHOOSE i \in 1..Len(KeyOrder) : KeyOrder[i] = k

\* The mutation of Sorted: the keys as they come
Unsorted(keys) == keys

\* keys.sort(): ascending
RECURSIVE Sorted(_)
Sorted(keys) ==
    IF keys = <<>> THEN <<>>
    ELSE LET i == CHOOSE i \in 1..Len(keys) :
                      \A j \in 1..Len(keys) : KeyRank(keys[i]) <= KeyRank(keys[j])
             rest == [j \in 1..(Len(keys) - 1) |-> IF j < i THEN keys[j] ELSE keys[j + 1]]
         IN <<keys[i]>> \o Sorted(rest)

RECURSIVE stableStringify(_)
stableStringify(obj) ==
    IF obj.t \notin {"arr", "obj"} THEN JsonStringify(obj)
    ELSE IF obj.t = "arr"
    THEN "[" \o Join([i \in 1..Len(obj.v) |-> stableStringify(obj.v[i])], ",") \o "]"
    ELSE LET keys == Sorted(ObjectKeys(obj)) IN
         "{" \o Join([i \in 1..Len(keys) |->
                        JsonStringify(JStr(keys[i])) \o ":"
                        \o stableStringify(obj.v[Member(obj, keys[i])][2])], ",") \o "}"

\* crypto.createHash('sha256').update(s).digest('hex'), taken as free of
\* collisions: the digest is written as the string it was computed from
Sha256(s) == [sha256 |-> s]
blockHash(block) == Sha256(stableStringify(block))

NoStrCall == [pc |-> "idle", x |-> JNull, y |-> JNull,
              sx |-> "", sy |-> "", hx |-> Sha256(""), hy |-> Sha256("")]

StrInit == strCall = NoStrCall

\* stableStringify and blockHash of both values
StringifyBoth ==
    /\ strCall.pc = "args"
    /\ strCall' = [strCall EXCEPT !.pc = "done",
                                  !.sx = stableStringify(strCall.x),
                                  !.sy = stableStringify(strCall.y),
                                  !.hx = blockHash(strCall.x),
                                  !.hy = blockHash(strCall.y)]
    /\ UNCHANGED <<now, leaseVars, workerVars, candleVars, apiVars, lastVars, queueVars, clientVars,
                   sqlVars, fundVars, newsVars, linkCall, freshCall>>

----------------------------------------------------------------------------
(* deploy/history-api/server.mjs: GET /news/latest and a client that follows *)
(* nextCursor.  An url is written as its rank in text order; published_at  *)
(* is a TIMESTAMPTZ in unix ms or PgNull.                                   *)

MaxNewsUrls == 3
MaxNewsPages == 4
PgNull == -1
MsPerSecond == 1000
NewsUrls == 1..MaxNewsUrls
PublishedAts == {PgNull, 1000, 1500}
FetchStatuses == {"fetched", "pending"}
NewsLimits == {1, 2}
Articles == [url : NewsUrls, published_at : PublishedAts, fetch_status : FetchStatuses]
\* articles.url is the primary key
ArticleTables == {t \in SUBSET Articles : \A a, b \in t : a.url = b.url => a = b}

\* String(x.published_at) of the Date that pg returns: the text has no
\* milliseconds; it is written here as the ms of its whole second
DateString(ms) == ms - (ms % MsPerSecond)

\* (a.published_at, a.url) < ($p, $u): NULL when published_at is NULL
RowBefore(a, p, u) ==
    /\ a.published_at # PgNull
    /\ \/ a.published_at < p
       \/ a.published_at = p /\ a.url < u

\* ORDER BY a.published_at DESC NULLS LAST, a.url DESC: a comes before b
NewsOrder(a, b) ==
    IF a.published_at = b.published_at THEN a.url > b.url
    ELSE IF a.published_at = PgNull THEN FALSE
    ELSE IF b.published_at = PgNull THEN TRUE
    ELSE a.published_at > b.published_at

RECURSIVE OrderNews(_)
OrderNews(rows) ==
    IF rows = {} THEN <<>>
    ELSE LET first == CHOOSE a \in rows : \A b \in rows \ {a} : NewsOrder(a, b)
         IN <<first>> \o OrderNews(rows \ {first})

FirstN(seq, n) == SubSeq(seq, 1, Min(n, Len(seq)))

NoCursor == [beforePublishedAt |-> PgNull, beforeUrl |-> 0]

\* The rows of GET /news/latest: cursor is what the request carries;
\* a parameter that is absent or empty is PgNull or 0 here
NewsLatestRows(table, limit, cursor) ==
    LET fetched == {a \in table : a.fetch_status = "fetched"}
        bp == cursor.beforePublishedAt
        bu == cursor.beforeUrl
        where == IF bp # PgNull /\ bu # 0
                 THEN {a \in fetched : RowBefore(a, bp, bu)}
                 ELSE IF bp # PgNull
                 THEN {a \in fetched : a.published_at # PgNull /\ a.published_at < bp}
                 ELSE fetched
    IN FirstN(OrderNews(where), limit)

\* nextCursor of the response
NextCursor(rows) ==
    IF rows = <<>> THEN NoCursor
    ELSE LET last == rows[Len(rows)] IN
         [beforePublishedAt |-> IF last.published_at # PgNull
                                THEN DateString(last.published_at) ELSE PgNull,
          beforeUrl |-> last.url]

NoNewsPage == [pc |-> "idle", limit |-> 1, cursor |-> NoCursor, seen |-> <<>>, pages |-> 0]

NewsInit ==
    /\ pgArticles = {}
    /\ newsPager = NoNewsPage

\* GET /news/latest?limit=n
NewsFirstPage(limit) ==
    LET rows == NewsLatestRows(pgArticles, limit, NoCursor) IN
    /\ newsPager.pc = "idle"
    /\ newsPager' = [pc |-> IF rows = <<>> THEN "done" ELSE "paging",
                     limit |-> limit, cursor |-> NextCursor(rows),
                     seen |-> [i \in 1..Len(rows) |-> rows[i].url], pages |-> 1]
    /\ UNCHANGED <<now, leaseVars, workerVars, candleVars, apiVars, lastVars, queueVars, clientVars,
                   sqlVars, fundVars, pgArticles, pureVars>>

\* GET /news/latest?limit=n&beforePublishedAt=..&beforeUrl=.. with the
\* nextCursor of the last page.  A beforePublishedAt of null is not sent.  The
\* warehouse either reads the text of the date back, or rejects it as not a
\* timestamp and the request is answered 500.
NewsNextPage(parsed) ==
    LET rows == NewsLatestRows(pgArticles, newsPager.limit, newsPager.cursor) IN
    /\ newsPager.pc = "paging"
    /\ newsPager.pages < MaxNewsPages
    /\ IF newsPager.cursor.beforePublishedAt # PgNull /\ ~parsed
       THEN newsPager' = [newsPager EXCEPT !.pc = "failed", !.pages = @ + 1]
       ELSE newsPager' = [newsPager EXCEPT
                !.pc = IF rows = <<>> THEN "done" ELSE "paging",
                !.cursor = NextCursor(rows),
                !.seen = @ \o [i \in 1..Len(rows) |-> rows[i].url],
                !.pages = @ + 1]
    /\ UNCHANGED <<now, leaseVars, workerVars, candleVars, apiVars, lastVars, queueVars, clientVars,
                   sqlVars, fundVars, pgArticles, pureVars>>

----------------------------------------------------------------------------
(* news_symbol_linker.mjs: linkSymbolsCore and finalize.  The text is taken *)
(* as what each rule's pattern matches in it: a set of candidates per rule. *)
(* Confidences are in hundredths.                                           *)

STOPWORDS == {"USD"}
\* The candidates the patterns can capture, in the order of localeCompare
CandidateOrder == <<"FPT", "USD", "VNM">>
Candidates == {CandidateOrder[i] : i \in 1..Len(CandidateOrder)}
TickerRank(tk) == CHOOSE i \in 1..Len(CandidateOrder) : CandidateOrder[i] = tk

\* The rules of linkSymbolsCore in the order they run
LinkRules ==
    <<[method |-> "paren", confidence |-> 95],
      [method |-> "exchange_paren", confidence |-> 92],
      [method |-> "exchange_colon", confidence |-> 92],
      [method |-> "keyword", confidence |-> 90],
      [method |-> "token", confidence |-> 60]>>

\* knownTickers: null or a Set
NoKnownTickers == {"(null)"}
KnownTickerSets == {NoKnownTickers, {"FPT", "USD"}}

\* validTicker(tk): the captures are [A-Z]{2,5} already
ValidTicker(tk) == tk \notin STOPWORDS

NoHit == [confidence |-> 0, method |-> ""]

\* The mutation of AddHit: the last rule that matched wins
AddHitLast(prev, confidence, method) == [confidence |-> confidence, method |-> method]

\* addHit(map, ticker, confidence, method): the entry of the ticker after it
AddHit(prev, confidence, method) ==
    IF prev = NoHit \/ confidence > prev.confidence
    THEN [confidence |-> confidence, method |-> method]
    ELSE prev

\* linkSymbolsCore: the rules from the n-th on, over the hits so far
RECURSIVE LinkSymbolsCore(_, _, _, _, _)
LinkSymbolsCore(matches, knownTickers, prefix, hits, n) ==
    IF n > Len(LinkRules) THEN hits
    ELSE LET rule == LinkRules[n]
             keep == {tk \in matches[n] :
                         /\ ValidTicker(tk)
                         /\ knownTickers = NoKnownTickers \/ tk \in knownTickers}
             after == [tk \in Candidates |->
                          IF tk \in keep
                          THEN AddHit(hits[tk], rule.confidence, prefix \o rule.method)
                          ELSE hits[tk]]
         IN LinkSymbolsCore(matches, knownTickers, prefix, after, n + 1)

\* (a, b) => b.confidence - a.confidence || a.ticker.localeCompare(b.ticker):
\* a sorts before b
HitBefore(a, b) ==
    \/ a.confidence > b.confidence
    \/ a.confidence = b.confidence /\ TickerRank(a.ticker) < TickerRank(b.ticker)

\* finalize(hits): [...hits.values()].sort(...)
RECURSIVE SortHits(_)
SortHits(entries) ==
    IF entries = {} THEN <<>>
    ELSE LET first == CHOOSE a \in entries : \A b \in entries \ {a} : HitBefore(a, b)
         IN <<first>> \o SortHits(entries \ {first})

Finalize(hits) ==
    SortHits({[ticker |-> tk, confidence |-> hits[tk].confidence, method |-> hits[tk].method] :
                 tk \in {t \in Candidates : hits[t] # NoHit}})

linkSymbolsFromText(matches, knownTickers) ==
    Finalize(LinkSymbolsCore(matches, knownTickers, "body_",
                             [tk \in Candidates |-> NoHit], 1))

NoLinkCall == [pc |-> "idle", matches |-> [n \in 1..Len(LinkRules) |-> {}],
               knownTickers |-> NoKnownTickers, out |-> <<>>]

LinkCallInit == linkCall = NoLinkCall

LinkText ==
    /\ linkCall.pc = "args"
    /\ linkCall' = [linkCall EXCEPT
                      !.pc = "done",
                      !.out = linkSymbolsFromText(linkCall.matches, linkCall.knownTickers)]
    /\ UNCHANGED <<now, leaseVars, workerVars, candleVars, apiVars, lastVars, queueVars, clientVars,
                   sqlVars, fundVars, newsVars, strCall, freshCall>>

----------------------------------------------------------------------------
(* simplize_health.mjs: evaluateFreshness.  lastUpdatedMs is a JavaScript  *)
(* value [t, n]: null, NaN or a number.                                     *)

MaxMs == 3
JsNull == [t |-> "null", n |-> 0]
JsNaN == [t |-> "NaN", n |-> 0]
JsNumber(n) == [t |-> "number", n |-> n]
NowArgs == 0..MaxMs
LastArgs == {JsNull, JsNaN} \cup {JsNumber(n) : n \in -1..MaxMs}
MaxAgeArgs == 0..(MaxMs - 1)

\* Number.isFinite(x)
NumberIsFinite(x) == x.t = "number"

\* The mutation of IsStale: stale at the age of maxAgeMs already
IsStaleAtMaxAge(ageMs, maxAgeMs) == ageMs >= maxAgeMs

\* ageMs > maxAgeMs
IsStale(ageMs, maxAgeMs) == ageMs > maxAgeMs

evaluateFreshness(nowMs, lastUpdatedMs, maxAgeMs) ==
    IF ~NumberIsFinite(lastUpdatedMs) \/ lastUpdatedMs.n <= 0
    THEN [ok |-> FALSE, ageMs |-> JsNull, reason |-> "missing_timestamp"]
    ELSE LET ageMs == nowMs - lastUpdatedMs.n IN
         IF ageMs < 0
         THEN [ok |-> TRUE, ageMs |-> JsNumber(ageMs), reason |-> "clock_skew"]
         ELSE IF IsStale(ageMs, maxAgeMs)
         THEN [ok |-> FALSE, ageMs |-> JsNumber(ageMs), reason |-> "stale"]
         ELSE [ok |-> TRUE, ageMs |-> JsNumber(ageMs), reason |-> "fresh"]

NoFreshCall == [pc |-> "idle", nowMs |-> 0, lastUpdatedMs |-> JsNull, maxAgeMs |-> 0,
                result |-> [ok |-> FALSE, ageMs |-> JsNull, reason |-> ""]]

FreshInit == freshCall = NoFreshCall

EvaluateFreshness ==
    /\ freshCall.pc = "args"
    /\ freshCall' = [freshCall EXCEPT
                       !.pc = "done",
                       !.result = evaluateFreshness(freshCall.nowMs, freshCall.lastUpdatedMs,
                                                    freshCall.maxAgeMs)]
    /\ UNCHANGED <<now, leaseVars, workerVars, candleVars, apiVars, lastVars, queueVars, clientVars,
                   sqlVars, fundVars, newsVars, strCall, linkCall>>

PureInit == StrInit /\ LinkCallInit /\ FreshInit
MoreInit == FundInit /\ NewsInit /\ PureInit

----------------------------------------------------------------------------
(* simplize_expand_market.mjs: the chunked run over the universe and its     *)
(* cursor file expand.cursor.json.                                           *)

TotalChunks == 3                        \* allChunks.length
MaxChunksArgs == {2, TotalChunks + 1}   \* --max-chunks

\* Math.max(0, Number(cursor.nextChunk || 0)) % Math.max(allChunks.length, 1);
\* readCursor answers { nextChunk: 0 } for a file it cannot read
ChunkStart(file, total) ==
    Max(0, IF file \in {NoFile, TornFile} THEN 0 ELSE file) % Max(total, 1)

\* for (i < Math.min(maxChunks, allChunks.length)) selected.push((start + i) % allChunks.length)
Selected(start, maxChunks, total) ==
    [i \in 1..Min(maxChunks, total) |-> (start + (i - 1)) % total]

\* (selected[selected.length - 1] + 1) % allChunks.length
NextChunk(selected, total) == (selected[Len(selected)] + 1) % total

NoExpand ==
    [pc |-> "idle", start |-> 0, maxChunks |-> 0, i |-> 0, ingested |-> {},
     published |-> FALSE, synced |-> FALSE, exit |-> NoExit]

ExpandInit ==
    /\ expand = NoExpand
    /\ expandCursor = NoFile

\* process.exit(code), or the rejection of main()
ExpandExited(code) == [NoExpand EXCEPT !.pc = "done", !.exit = code]

\* main() up to the ingest loop: the universe is chunked, the cursor is read
ExpandStart(maxChunks) ==
    /\ expand.pc \in {"idle", "done"}
    /\ expand' = [NoExpand EXCEPT !.pc = "ingest", !.maxChunks = maxChunks, !.i = 1,
                                  !.start = ChunkStart(expandCursor, TotalChunks)]
    /\ UNCHANGED <<now, leaseVars, workerVars, candleVars, apiVars, expandCursor,
                   queueVars, clientVars, sqlVars, moreVars, batchSel, orderRun, tailVars>>

\* runIngest of the next selected chunk: the child ends with status 0 after
\* writing the chunk's files, or with another status and runIngest throws
ExpandIngestChunk(ok) ==
    /\ expand.pc = "ingest"
    /\ LET selected == Selected(expand.start, expand.maxChunks, TotalChunks) IN
       expand' =
         IF ~ok THEN ExpandExited(1)
         ELSE [expand EXCEPT !.ingested = @ \cup {selected[expand.i]},
                             !.i = @ + 1,
                             !.pc = IF expand.i = Len(selected) THEN "publish" ELSE "ingest"]
    /\ UNCHANGED <<now, leaseVars, workerVars, candleVars, apiVars, expandCursor,
                   queueVars, clientVars, sqlVars, moreVars, batchSel, orderRun, tailVars>>

\* simplize_publish.mjs: 'publish failed' when its status is not 0
ExpandPublish(ok) ==
    /\ expand.pc = "publish"
    /\ expand' = IF ok THEN [expand EXCEPT !.pc = "sqlite", !.published = TRUE]
                 ELSE ExpandExited(1)
    /\ UNCHANGED <<now, leaseVars, workerVars, candleVars, apiVars, expandCursor,
                   queueVars, clientVars, sqlVars, moreVars, batchSel, orderRun, tailVars>>

\* simplize_sqlite_sync.mjs: 'sqlite sync failed' when its status is not 0
ExpandSqliteSync(ok) ==
    /\ expand.pc = "sqlite"
    /\ expand' = IF ok THEN [expand EXCEPT !.pc = "cursor", !.synced = TRUE]
                 ELSE ExpandExited(1)
    /\ UNCHANGED <<now, leaseVars, workerVars, candleVars, apiVars, expandCursor,
                   queueVars, clientVars, sqlVars, moreVars, batchSel, orderRun, tailVars>>

\* writeCursor(cursorPath, { nextChunk, ... }) and the summary
ExpandWriteCursor ==
    /\ expand.pc = "cursor"
    /\ expandCursor' = NextChunk(Selected(expand.start, expand.maxChunks, TotalChunks),
                                 TotalChunks)
    /\ expand' = ExpandExited(0)
    /\ UNCHANGED <<now, leaseVars, workerVars, candleVars, apiVars,
                   queueVars, clientVars, sqlVars, moreVars, batchSel, orderRun, tailVars>>

\* writeFile(file, ...) empties the file and then writes: the process is
\* killed in between or part way through.
ExpandWriteCursorTorn ==
    /\ expand.pc = "cursor"
    /\ expandCursor' = TornFile
    /\ expand' = ExpandExited(137)
    /\ UNCHANGED <<now, leaseVars, workerVars, candleVars, apiVars,
                   queueVars, clientVars, sqlVars, moreVars, batchSel, orderRun, tailVars>>

\* killTimer: process.exit(124) once the time budget is over, or the process
\* is killed from outside, wherever the run is
ExpandKilled ==
    /\ expand.pc \notin {"idle", "done"}
    /\ expand' = ExpandExited(124)
    /\ UNCHANGED <<now, leaseVars, workerVars, candleVars, apiVars, expandCursor,
                   queueVars, clientVars, sqlVars, moreVars, batchSel, orderRun, tailVars>>


----------------------------------------------------------------------------
(* candles_batch_run.sh: the cursor load, the batch selection and the next   *)
(* index, for any shard size, batch size and stored cursor.                   *)

MaxShard == 3        \* tickers in the shard: 0..MaxShard
MaxBatchSize == 4    \* BATCH_SIZE: 1..MaxBatchSize
MaxStored == 4       \* nextIndex found in the cursor file: 0..MaxStored

ShardSizes == 0..MaxShard
BatchSizes == 1..MaxBatchSize
StoredCursors == {NoFile} \cup (0..MaxStored)

NoBatchSel ==
    [pc |-> "idle", n |-> 0, batchSize |-> 1, file |-> NoFile, stored |-> NoFile,
     start |-> 0, sel |-> <<>>, runs |-> 0]

BatchSelInit == batchSel = NoBatchSel

\* One run of the script from the cursor load to the cursor write, the
\* children ending with status 0 and the coordinator granting the claim.
SelectBatch ==
    /\ batchSel.pc \in {"args", "done"}
    /\ LET start == StartIndex(batchSel.file, batchSel.n) IN
       batchSel' = [batchSel EXCEPT
                      !.pc = "done",
                      !.stored = batchSel.file,
                      !.start = start,
                      !.sel = Sel(start, batchSel.batchSize, batchSel.n),
                      !.file = NextIndex(start, batchSel.batchSize, batchSel.n),
                      !.runs = Min(@ + 1, 2)]
    /\ UNCHANGED <<now, leaseVars, workerVars, candleVars, apiVars, expandVars,
                   queueVars, clientVars, sqlVars, moreVars, orderRun, tailVars>>

----------------------------------------------------------------------------
(* candles:upsertMany applied to the same two batches in both orders.  Each  *)
(* mutation is one transaction, so every interleaving of two calls is one of *)
(* the two orders.                                                           *)

NoOrderRun == [pc |-> "idle", a |-> <<>>, b |-> <<>>, ab |-> {}, ba |-> {}]

OrderInit == orderRun = NoOrderRun

\* The table after upsertMany(first) and then upsertMany(second) on an empty table
UpsertBoth(ticker, tf, first, second, t) ==
    LET one == UpsertLoop({}, 1, ticker, tf, first, t)
    IN UpsertLoop(one.table, one.nextId, ticker, tf, second, t).table

ApplyBothOrders ==
    /\ orderRun.pc = "args"
    /\ \E ticker \in CandleTickers, tf \in CandleTfs :
         orderRun' = [orderRun EXCEPT
                        !.pc = "done",
                        !.ab = UpsertBoth(ticker, tf, orderRun.a, orderRun.b, now),
                        !.ba = UpsertBoth(ticker, tf, orderRun.b, orderRun.a, now)]
    /\ UNCHANGED <<now, leaseVars, workerVars, candleVars, apiVars, expandVars, batchSel,
                   queueVars, clientVars, sqlVars, moreVars, tailVars>>

----------------------------------------------------------------------------
(* GET /candles with any limit parameter, on any warehouse.                  *)

\* req.query.limit: absent, empty, not a number, or the string of a number
LimitArgs == {Absent, EmptyStr, Text, Str(-5), Str(0), Str(1), Str(2), Str(500),
              Str(2000), Str(2001)}

NoLimitCall ==
    [pc |-> "idle", limit |-> Absent, bars |-> {}, pageSize |-> 0,
     status |-> 0, count |-> 0]

LimitInit == limitCall = NoLimitCall

\* GET /candles?ticker=FPT&tf=1d&limit=... with the right key
CandlesWithLimit ==
    /\ limitCall.pc = "args"
    /\ LET res == CandlesResponse(Warehouse(limitCall.bars), API_KEY, PagedTicker,
                                  PagedTf, Absent, limitCall.limit)
       IN limitCall' = [limitCall EXCEPT
                          !.pc = "done",
                          !.pageSize = CandlesLimit(limitCall.limit),
                          !.status = res.status,
                          !.count = Len(res.rows)]
    /\ UNCHANGED <<now, leaseVars, workerVars, candleVars, apiVars, expandVars, batchSel,
                   orderRun, queueVars, clientVars, sqlVars, moreVars, repairers, backfill, fundIngest>>

----------------------------------------------------------------------------
(* Repair workers on the queue: each reads nextQueued, takes the oldest row  *)
(* and calls markRunning on it.  A Convex mutation is one serializable       *)
(* transaction, so concurrent calls act one after the other in some order.   *)

RepairWorkers == {"r1", "r2", "r3"}

NoRepair == [pc |-> "idle", id |-> 0, result |-> "", changed |-> FALSE]

RepairersInit == repairers = [r \in RepairWorkers |-> NoRepair]

\* rows = nextQueued(); the worker goes on with rows[0]
TakeNextQueued(r) ==
    /\ repairers[r].pc = "idle"
    /\ NextQueued(repairQueue, NoArg) # <<>>
    /\ repairers' = [repairers EXCEPT
                       ![r] = [NoRepair EXCEPT !.pc = "taken",
                                               !.id = NextQueued(repairQueue, NoArg)[1].id]]
    /\ UNCHANGED <<now, leaseVars, workerVars, candleVars, apiVars, expandVars, batchSel,
                   orderRun, queueVars, clientVars, sqlVars, moreVars, limitCall, backfill, fundIngest>>

\* markRunning({id}) by the worker, on the row it took
CallMarkRunning(r) ==
    /\ repairers[r].pc = "taken"
    /\ LET rows == GetRow(repairQueue, repairers[r].id)
           out == MarkRunningOutcome(repairQueue, repairers[r].id, now)
       IN /\ repairQueue' = out.table
          /\ queueCall' = [op |-> "markRunning", id |-> repairers[r].id, pre |-> rows,
                           result |-> out.result]
          /\ repairers' = [repairers EXCEPT
                             ![r] = [@ EXCEPT !.pc = "called", !.result = out.result,
                                              !.changed = out.table # repairQueue]]
    /\ UNCHANGED <<now, leaseVars, workerVars, candleVars, apiVars, expandVars, batchSel,
                   orderRun, queueNextId, clientVars, sqlVars, moreVars, limitCall, backfill, fundIngest>>

----------------------------------------------------------------------------
(* The Vietstock link backfill: each run reads the cursor from registry_kv,  *)
(* selects one batch of archive articles published after it, links them and  *)
(* stores the published_at of the last row as the new cursor.  published_at  *)
(* is an ISO string; the model keeps its order as 1..MaxPublished.           *)

MaxPublished == 2
MaxBackfillRuns == 4
BackfillUrls == {"u1", "u2", "u3"}
BackfillBatchSizes == {1, 2}

\* published_at IS NULL
NullPublishedAt == 0
\* kvGet(reg, args.cursorKey) || '' : no cursor stored yet, below every published_at
EmptyCursor == 0

ArchiveRows == [url : BackfillUrls, publishedAt : 0..MaxPublished,
                fetchStatus : {"ok", "pending"}]

\* WHERE fetch_status IN ('ok','fetched') AND published_at IS NOT NULL
Eligible(a) == a.fetchStatus \in {"ok", "fetched"} /\ a.publishedAt # NullPublishedAt

\* the rows the SELECT can return: eligible, published_at > cursor
AfterCursor(archive, cursor) ==
    {a \in archive : Eligible(a) /\ a.publishedAt > cursor}

\* ORDER BY published_at ASC LIMIT batchSize: any set of batchSize candidates
\* no later than the rest (SQLite leaves the order of equal keys open)
IsBatch(rows, candidates, batchSize) ==
    /\ rows \subseteq candidates
    /\ Cardinality(rows) = Min(batchSize, Cardinality(candidates))
    /\ \A a \in rows : \A b \in candidates \ rows : a.publishedAt <= b.publishedAt

\* rows[rows.length - 1].publishedAt
LastPublishedAt(rows) == CHOOSE t \in {a.publishedAt : a \in rows} :
                             \A a \in rows : a.publishedAt <= t

NoBackfill == [archive |-> {}, batchSize |-> 1, cursor |-> EmptyCursor,
               linked |-> {}, runs |-> 0, batch |-> 0]

BackfillInit == backfill = NoBackfill

\* one run of main(): select, upsert and link each row, then kvSet the cursor
BackfillRun ==
    /\ backfill.archive # {}
    /\ \E rows \in SUBSET AfterCursor(backfill.archive, backfill.cursor) :
          /\ IsBatch(rows, AfterCursor(backfill.archive, backfill.cursor), backfill.batchSize)
          /\ backfill' = [backfill EXCEPT
                            !.linked = @ \cup {a.url : a \in rows},
                            !.cursor = IF rows # {} THEN LastPublishedAt(rows) ELSE @,
                            !.runs = Min(@ + 1, MaxBackfillRuns),
                            !.batch = Cardinality(rows)]
    /\ UNCHANGED <<now, leaseVars, workerVars, candleVars, apiVars, expandVars, batchSel,
                   orderRun, queueVars, clientVars, sqlVars, moreVars, limitCall, repairers, fundIngest>>

----------------------------------------------------------------------------
(* simplize_ingest.mjs step by step, with the process ending between any two *)
(* writes.  state.json is read once into memory at the start and written     *)
(* once after the loop over the tickers; every file is written by            *)
(* atomicWrite (tmp + rename), so a file is either old or new.               *)

TickerLists == {<<"FPT">>, <<"FPT", "VNM">>}

NoFundIngest == [pc |-> "idle", rest |-> <<>>, stamp |-> 0,
             hashes |-> [t \in FundTickers |-> NoHash],
             block |-> NoBlock, prevHash |-> NoHash,
             log |-> [t \in FundTickers |-> <<>>]]

IngestInit == fundIngest = NoFundIngest

IngestOthers == <<leaseVars, workerVars, candleVars, apiVars, expandVars, batchSel, orderRun,
                  queueVars, clientVars, sqlVars, fundRun, newsVars, pureVars,
                  limitCall, repairers, backfill>>

\* state.hashes[k] = hash; results.push(...): on to the next ticker, or to
\* the write of state.json after the last one
TickerDone(run, hash) ==
    [run EXCEPT !.hashes = [@ EXCEPT ![Head(run.rest)] = hash],
                !.rest = Tail(@),
                !.block = NoBlock, !.prevHash = NoHash,
                !.pc = IF Tail(run.rest) = <<>> THEN "state" ELSE "fetch"]

\* main() up to the loop: stamp, readJson(stateFile, {hashes: {}})
IngestStart(tickers) ==
    /\ fundIngest.pc \in {"idle", "done", "interrupted"}
    /\ fundIngest' = [fundIngest EXCEPT !.pc = "fetch", !.rest = tickers, !.stamp = now,
                                !.hashes = fundDisk.hashes]
    /\ UNCHANGED <<now, fundDisk, IngestOthers>>

\* one ticker of the loop up to the NDJSON append: the fetch, the hash, the
\* _latest.json file and, if changed, the dated snapshot
IngestFetch(data, took) ==
    LET ticker == Head(fundIngest.rest)
        block == FetchTickerBlock(ticker, data, now + took)
        hash == BlockHash(block)
        prevHash == fundIngest.hashes[ticker]
        changed == prevHash # hash
    IN
    /\ fundIngest.pc = "fetch"
    /\ now + took <= MaxFundMs
    /\ now' = now + took
    /\ fundDisk' = [fundDisk EXCEPT
                      !.latest = [@ EXCEPT ![ticker] = block],
                      !.snapshots = IF changed THEN @ \cup {<<ticker, fundIngest.stamp>>} ELSE @]
    /\ fundIngest' = IF changed /\ NormalizedRows(block) > 0
                 THEN [fundIngest EXCEPT !.pc = "append", !.block = block,
                                     !.prevHash = prevHash]
                 ELSE TickerDone(fundIngest, hash)
    /\ UNCHANGED IngestOthers

\* atomicWrite(ndjsonPath, prev + payload), then state.hashes[k] = hash in memory
IngestAppend ==
    LET ticker == Head(fundIngest.rest) IN
    /\ fundIngest.pc = "append"
    /\ fundDisk' = [fundDisk EXCEPT
                      !.ndjson = [@ EXCEPT ![ticker] = @ + NormalizedRows(fundIngest.block)]]
    /\ fundIngest' = [TickerDone(fundIngest, BlockHash(fundIngest.block)) EXCEPT
                    !.log = [@ EXCEPT ![ticker] =
                               Append(@, [block |-> fundIngest.block,
                                          prevHash |-> fundIngest.prevHash])]]
    /\ UNCHANGED <<now, IngestOthers>>

\* atomicWrite(stateFile, JSON.stringify(state)) after the loop
IngestWriteState ==
    /\ fundIngest.pc = "state"
    /\ fundDisk' = [fundDisk EXCEPT !.hashes = fundIngest.hashes]
    /\ fundIngest' = [fundIngest EXCEPT !.pc = "done"]
    /\ UNCHANGED <<now, IngestOthers>>

\* the process ends (signal, power, a throw of fetchTickerBlock) before its
\* next write: what is in memory is lost, the files stay as they are
IngestInterrupted ==
    /\ fundIngest.pc \in {"fetch", "append", "state"}
    /\ fundIngest' = [fundIngest EXCEPT !.pc = "interrupted", !.rest = <<>>,
                                !.hashes = NoFundIngest.hashes,
                                !.block = NoBlock, !.prevHash = NoHash]
    /\ UNCHANGED <<now, fundDisk, IngestOthers>>

TailInit == LimitInit /\ RepairersInit /\ BackfillInit /\ IngestInit
LastInit == ExpandInit /\ BatchSelInit /\ OrderInit /\ TailInit

RestInit == QueueInit /\ ClientInit /\ SqlInit /\ LastInit /\ MoreInit

----------------------------------------------------------------------------
(* Specifications *)

\* The coordinator alone, called by any owner with any arguments.
LeaseTryClaim ==
    /\ \E job \in Jobs, shard \in Shards, ownerId \in Owners, leaseMs \in LeaseMsArgs,
          staleMinutes \in StaleMinutesArgs, meta \in MetaArgs :
           TryClaim(job, shard, ownerId, leaseMs, staleMinutes, meta)
    /\ UNCHANGED <<workerVars, candleVars, apiVars, restVars>>

LeaseRenew ==
    /\ \E job \in Jobs, shard \in Shards, ownerId \in Owners, leaseMs \in LeaseMsArgs,
          meta \in MetaArgs :
           Renew(job, shard, ownerId, leaseMs, meta)
    /\ UNCHANGED <<workerVars, candleVars, apiVars, restVars>>

LeaseReportProgress ==
    /\ \E job \in Jobs, shard \in Shards, ownerId \in Owners, meta \in MetaArgs :
           ReportProgress(job, shard, ownerId, meta)
    /\ UNCHANGED <<workerVars, candleVars, apiVars, restVars>>

LeaseTick == Tick(MaxTicks)

LeaseNext == LeaseTick \/ LeaseTryClaim \/ LeaseRenew \/ LeaseReportProgress

LeaseSpecInit ==
    /\ LeaseInit /\ WorkerInit /\ CandleInit /\ RestInit /\ ApiInit
    /\ script = [w \in Nodes |-> BatchRun]

LeaseSpec == LeaseSpecInit /\ [][LeaseNext]_vars

\* The candle table under any sequence of upsertMany calls.
CandleUpsert ==
    \E ticker \in CandleTickers, tf \in CandleTfs, batch \in Batches :
        UpsertMany(ticker, tf, batch)

CandleTick == Tick(MaxCandleTicks)

CandleNext == CandleTick \/ CandleUpsert

CandleSpecInit ==
    /\ LeaseInit /\ WorkerInit /\ CandleInit /\ RestInit /\ ApiInit
    /\ script = [w \in Nodes |-> BatchRun]

CandleSpec == CandleSpecInit /\ [][CandleNext]_vars

\* A client pages through the candles of one (ticker, tf) of a warehouse
\* holding any set of bars.
ApiFirstPage == \E ticker \in {"FPT", "fpt"}, limit \in LimitParams : FirstPage(ticker, limit)

ApiRequest ==
    \E endpoint \in Endpoints, key \in Headers, ticker \in {"", "FPT"},
       tf \in {"", "1d"}, dbUp \in BOOLEAN :
        Request(endpoint, key, ticker, tf, dbUp)

ApiNext == ApiFirstPage \/ NextPage \/ ApiRequest

ApiSpecInit ==
    /\ LeaseInit /\ WorkerInit /\ CandleInit /\ RestInit
    /\ pgCandles \in {Warehouse(bars) : bars \in SUBSET BarTs}
    /\ pager = NoPage
    /\ httpLog = NoRequest
    /\ script = [w \in Nodes |-> BatchRun]

ApiSpec == ApiSpecInit /\ [][ApiNext]_vars

\* The repair queue under any sequence of its mutations.
QueueEnqueue ==
    \E w \in Windows, expectedBars \in ExpectedBars, note \in Notes :
        Enqueue(w, expectedBars, note)

QueueMarkRunning == \E id \in 1..queueNextId : MarkRunning(id)

QueueMarkDone == \E id \in 1..queueNextId : MarkDone(id)

QueueMarkError == \E id \in 1..queueNextId, errorLen \in ErrorLens : MarkError(id, errorLen)

QueueTick == Tick(MaxQueueTicks)

QueueNext ==
    QueueTick \/ QueueEnqueue \/ QueueMarkRunning \/ QueueMarkDone \/ QueueMarkError

QueueSpecInit ==
    /\ LeaseInit /\ WorkerInit /\ CandleInit /\ RestInit /\ ApiInit
    /\ script = [w \in Nodes |-> BatchRun]

QueueSpec == QueueSpecInit /\ [][QueueNext]_vars

\* A run of the ingest script against a source that answers in any way.
ClientAttempt == \E outcome \in Outcomes : FetchAttempt(outcome)

ClientNext == StartIngest \/ ClientAttempt \/ BackoffOver \/ IngestTicker \/ IngestCrash

ClientSpecInit ==
    /\ LeaseInit /\ WorkerInit /\ CandleInit /\ RestInit /\ ApiInit
    /\ script = [w \in Nodes |-> BatchRun]

ClientSpec == ClientSpecInit /\ [][ClientNext]_vars

----------------------------------------------------------------------------
(* The link table of the registry under any upserts *)

LinkUpsert ==
    \E url \in Urls, ticker \in LinkTickers, confidence \in Confidences, method \in Methods :
        upsertArticleSymbol(url, ticker, confidence, method)

LinkNext == LinkUpsert

LinkSpecInit ==
    /\ LeaseInit /\ WorkerInit /\ CandleInit /\ RestInit /\ ApiInit
    /\ script = [w \in Nodes |-> BatchRun]

LinkSpec == LinkSpecInit /\ [][LinkNext]_vars

----------------------------------------------------------------------------
(* Full refreshes of fi_latest, with failures and crashes *)

LatestReplace == \E rows \in FiLatestBatches : replaceFiLatest(rows)

LatestNext == LatestReplace \/ ReplaceInsertRow \/ ReplaceCommit \/ ReplaceCrash

LatestSpecInit ==
    /\ LeaseInit /\ WorkerInit /\ CandleInit /\ RestInit /\ ApiInit
    /\ script = [w \in Nodes |-> BatchRun]

LatestSpec == LatestSpecInit /\ [][LatestNext]_vars

----------------------------------------------------------------------------
(* fi_points under any batches of upserts *)

FiUpsert == \E rows \in FiBatches : upsertRows(rows)

FiNext == FiUpsert

FiSpecInit ==
    /\ LeaseInit /\ WorkerInit /\ CandleInit /\ RestInit /\ ApiInit
    /\ script = [w \in Nodes |-> BatchRun]

FiSpec == FiSpecInit /\ [][FiNext]_vars

\* The fleet: every node's cron runs the batch script against the coordinator.
FleetTick == Tick(MaxRunTicks)

WorkerNext ==
    \/ FleetTick
    \/ \E w \in Nodes : Boot(w)
    \/ \E w \in Nodes : BackfillTicker(w)
    \/ \E w \in Nodes : BackfillFails(w)
    \/ \E w \in Nodes : RunTimeout(w)
    \/ \E w \in Nodes : ClaimAfterRun(w)
    \/ \E w \in Nodes : WriteCursor(w)
    \/ \E w \in Nodes : ReportAndExit(w)

WorkerSpecInit ==
    /\ LeaseInit /\ WorkerInit /\ CandleInit /\ RestInit /\ ApiInit
    /\ script = [w \in Nodes |-> BatchRun]

WorkerSpec == WorkerSpecInit /\ [][WorkerNext]_vars

\* The fleet with one node running each copy of the script.
FleetNext == WorkerNext \/ \E w \in Nodes : BootLateClaim(w)

FleetSpecInit ==
    /\ LeaseInit /\ WorkerInit /\ CandleInit /\ RestInit /\ ApiInit
    /\ script = [w \in Nodes |-> IF w = "optiplex" THEN BatchRun ELSE BatchRunLateClaim]

FleetSpec == FleetSpecInit /\ [][FleetNext]_vars

----------------------------------------------------------------------------
(* Successive runs of the fundamentals ingest *)

FundIngest ==
    \E ticker \in FundTickers, data \in Upstreams, took \in FetchTakes :
        SimplizeIngest(ticker, data, took)

FundNext == FundIngest

FundSpecInit ==
    /\ LeaseInit /\ WorkerInit /\ CandleInit /\ RestInit /\ ApiInit
    /\ script = [w \in Nodes |-> BatchRun]

FundSpec == FundSpecInit /\ [][FundNext]_vars

----------------------------------------------------------------------------
(* stableStringify and blockHash of any two JSON values *)

StrNext == StringifyBoth

StrSpecInit ==
    /\ LeaseInit /\ WorkerInit /\ CandleInit /\ ApiInit
    /\ QueueInit /\ ClientInit /\ SqlInit /\ LastInit /\ FundInit /\ NewsInit
    /\ LinkCallInit /\ FreshInit
    /\ script = [w \in Nodes |-> BatchRun]
    /\ \E x \in JsonValues, y \in JsonValues :
         strCall = [NoStrCall EXCEPT !.pc = "args", !.x = x, !.y = y]

StrSpec == StrSpecInit /\ [][StrNext]_vars

----------------------------------------------------------------------------
(* A client paging through GET /news/latest of any table of articles *)

NewsFirst == \E limit \in NewsLimits : NewsFirstPage(limit)

NewsFollow == \E parsed \in BOOLEAN : NewsNextPage(parsed)

NewsNext == NewsFirst \/ NewsFollow

NewsSpecInit ==
    /\ LeaseInit /\ WorkerInit /\ CandleInit /\ ApiInit
    /\ QueueInit /\ ClientInit /\ SqlInit /\ LastInit /\ FundInit /\ PureInit
    /\ script = [w \in Nodes |-> BatchRun]
    /\ pgArticles \in ArticleTables
    /\ newsPager = NoNewsPage

NewsSpec == NewsSpecInit /\ [][NewsNext]_vars

----------------------------------------------------------------------------
(* The linker on any text *)

LinkerNext == LinkText

LinkerSpecInit ==
    /\ LeaseInit /\ WorkerInit /\ CandleInit /\ ApiInit
    /\ QueueInit /\ ClientInit /\ SqlInit /\ LastInit /\ FundInit /\ NewsInit
    /\ StrInit /\ FreshInit
    /\ script = [w \in Nodes |-> BatchRun]
    /\ \E matches \in [1..Len(LinkRules) -> SUBSET Candidates],
          knownTickers \in KnownTickerSets :
         linkCall = [NoLinkCall EXCEPT !.pc = "args", !.matches = matches,
                                       !.knownTickers = knownTickers]

LinkerSpec == LinkerSpecInit /\ [][LinkerNext]_vars

----------------------------------------------------------------------------
(* evaluateFreshness on any arguments *)

FreshNext == EvaluateFreshness

FreshSpecInit ==
    /\ LeaseInit /\ WorkerInit /\ CandleInit /\ ApiInit
    /\ QueueInit /\ ClientInit /\ SqlInit /\ LastInit /\ FundInit /\ NewsInit
    /\ StrInit /\ LinkCallInit
    /\ script = [w \in Nodes |-> BatchRun]
    /\ \E nowMs \in NowArgs, lastUpdatedMs \in LastArgs, maxAgeMs \in MaxAgeArgs :
         freshCall = [NoFreshCall EXCEPT !.pc = "args", !.nowMs = nowMs,
                                         !.lastUpdatedMs = lastUpdatedMs,
                                         !.maxAgeMs = maxAgeMs]

FreshSpec == FreshSpecInit /\ [][FreshNext]_vars

----------------------------------------------------------------------------
(* The cursors: both copies of the batch script on their shard cursor and   *)
(* simplize_expand_market.mjs on its chunk cursor, with failures, timeouts  *)
(* and kills at any point.                                                   *)

CursorTick == Tick(MaxCursorTicks)

ExpandNext ==
    \/ \E maxChunks \in MaxChunksArgs : ExpandStart(maxChunks)
    \/ \E ok \in BOOLEAN : ExpandIngestChunk(ok)
    \/ \E ok \in BOOLEAN : ExpandPublish(ok)
    \/ \E ok \in BOOLEAN : ExpandSqliteSync(ok)
    \/ ExpandWriteCursor
    \/ ExpandWriteCursorTorn
    \/ ExpandKilled

CursorNext ==
    \/ CursorTick
    \/ \E w \in Nodes : Boot(w)
    \/ \E w \in Nodes : BootLateClaim(w)
    \/ \E w \in Nodes : BackfillTicker(w)
    \/ \E w \in Nodes : BackfillFails(w)
    \/ \E w \in Nodes : RunTimeout(w)
    \/ \E w \in Nodes : ClaimAfterRun(w)
    \/ \E w \in Nodes : WriteCursor(w)
    \/ \E w \in Nodes : ReportAndExit(w)
    \/ \E w \in Nodes : WriteCursorTorn(w)
    \/ \E w \in Nodes : Killed(w)
    \/ ExpandNext

CursorSpecInit ==
    /\ LeaseInit /\ WorkerInit /\ CandleInit /\ RestInit /\ ApiInit
    /\ script = [w \in Nodes |-> IF w = "optiplex" THEN BatchRun ELSE BatchRunLateClaim]

CursorSpec == CursorSpecInit /\ [][CursorNext]_vars

----------------------------------------------------------------------------
(* The batch selection on any shard, batch size and stored cursor *)

SelNext == SelectBatch

SelSpecInit ==
    /\ LeaseInit /\ WorkerInit /\ CandleInit /\ ApiInit
    /\ QueueInit /\ ClientInit /\ SqlInit /\ MoreInit /\ ExpandInit /\ OrderInit /\ TailInit
    /\ script = [w \in Nodes |-> BatchRun]
    /\ \E n \in ShardSizes, batchSize \in BatchSizes, file \in StoredCursors :
         batchSel = [NoBatchSel EXCEPT !.pc = "args", !.n = n,
                                       !.batchSize = batchSize, !.file = file]

SelSpec == SelSpecInit /\ [][SelNext]_vars

----------------------------------------------------------------------------
(* Two candle upserts in both orders, for any two batches *)

OrderNext == ApplyBothOrders

OrderSpecInit ==
    /\ LeaseInit /\ WorkerInit /\ CandleInit /\ ApiInit
    /\ QueueInit /\ ClientInit /\ SqlInit /\ MoreInit /\ ExpandInit /\ BatchSelInit /\ TailInit
    /\ script = [w \in Nodes |-> BatchRun]
    /\ \E a \in Batches, b \in Batches :
         orderRun = [NoOrderRun EXCEPT !.pc = "args", !.a = a, !.b = b]

OrderSpec == OrderSpecInit /\ [][OrderNext]_vars

----------------------------------------------------------------------------
(* GET /candles for any limit parameter *)

LimitNext == CandlesWithLimit

LimitSpecInit ==
    /\ LeaseInit /\ WorkerInit /\ CandleInit /\ ApiInit
    /\ QueueInit /\ ClientInit /\ SqlInit /\ MoreInit
    /\ ExpandInit /\ BatchSelInit /\ OrderInit /\ RepairersInit /\ BackfillInit /\ IngestInit
    /\ script = [w \in Nodes |-> BatchRun]
    /\ \E limit \in LimitArgs, bars \in SUBSET BarTs :
         limitCall = [NoLimitCall EXCEPT !.pc = "args", !.limit = limit, !.bars = bars]

LimitSpec == LimitSpecInit /\ [][LimitNext]_vars

----------------------------------------------------------------------------
(* Repair workers racing for the rows of the queue *)

RaceNext ==
    \/ QueueEnqueue
    \/ \E r \in RepairWorkers : TakeNextQueued(r)
    \/ \E r \in RepairWorkers : CallMarkRunning(r)

RaceSpecInit ==
    /\ LeaseInit /\ WorkerInit /\ CandleInit /\ RestInit /\ ApiInit
    /\ script = [w \in Nodes |-> BatchRun]

RaceSpec == RaceSpecInit /\ [][RaceNext]_vars

----------------------------------------------------------------------------
(* Repeated runs of the link backfill over one archive, one url per article *)

BackfillNext == BackfillRun

BackfillSpecInit ==
    /\ LeaseInit /\ WorkerInit /\ CandleInit /\ ApiInit
    /\ QueueInit /\ ClientInit /\ SqlInit /\ MoreInit
    /\ ExpandInit /\ BatchSelInit /\ OrderInit /\ LimitInit /\ RepairersInit /\ IngestInit
    /\ script = [w \in Nodes |-> BatchRun]
    /\ \E archive \in SUBSET ArchiveRows, batchSize \in BackfillBatchSizes :
          /\ archive # {}
          /\ \A a, b \in archive : a.url = b.url => a = b
          /\ backfill = [NoBackfill EXCEPT !.archive = archive, !.batchSize = batchSize]

BackfillSpec == BackfillSpecInit /\ [][BackfillNext]_vars

----------------------------------------------------------------------------
(* Runs of the fundamentals ingest that may be interrupted and run again *)

CrashNext ==
    \/ \E tickers \in TickerLists : IngestStart(tickers)
    \/ \E data \in Upstreams, took \in FetchTakes : IngestFetch(data, took)
    \/ IngestAppend
    \/ IngestWriteState
    \/ IngestInterrupted

CrashSpecInit ==
    /\ LeaseInit /\ WorkerInit /\ CandleInit /\ RestInit /\ ApiInit
    /\ script = [w \in Nodes |-> BatchRun]

CrashSpec == CrashSpecInit /\ [][CrashNext]_vars

----------------------------------------------------------------------------
(* Properties of the lease coordinator (LeaseSpec) *)

\* The row of the last call's (job, shard) as the call left it.
RowAfter == ByJobShard(shardLeases, lastCall.job, lastCall.shard)

\* The lease a call is granted, by the documented range of lease_ms.
GrantedLeaseMs(leaseMs) ==
    IF leaseMs = NoArg THEN 300000
    ELSE IF leaseMs < 30000 THEN 30000
    ELSE IF leaseMs > 1800000 THEN 1800000
    ELSE leaseMs

\* C2: tryClaim (stale_minutes >= 1) returns ok:true iff the row is absent, or
\* lease_until_ms < now, or last_progress_ms < now - stale_minutes*60000; a
\* tryClaim by another owner on a lease that is neither expired nor stale
\* returns ok:false; a denied tryClaim leaves the row unchanged.
C2_TryClaimRule ==
    (lastCall.op = "tryClaim" /\ lastCall.staleMinutes >= 1) =>
        LET t == lastCall.t
            window == lastCall.staleMinutes * 60000
        IN /\ lastCall.ok <=>
                \/ lastCall.pre = {}
                \/ \E L \in lastCall.pre :
                     L.leaseUntilMs < t \/ L.lastProgressAtMs < t - window
           /\ \A L \in lastCall.pre :
                (/\ t < L.leaseUntilMs
                 /\ t < L.lastProgressAtMs + window
                 /\ lastCall.ownerId # L.ownerId) => ~lastCall.ok
           /\ ~lastCall.ok => RowAfter = lastCall.pre

\* C2 witness: another owner's tryClaim was denied on a live lease whose
\* holder had renewed it or reported progress since claiming it.
C2_Witness ==
    /\ lastCall.op = "tryClaim" /\ lastCall.staleMinutes >= 1 /\ ~lastCall.ok
    /\ \E L \in lastCall.pre :
         /\ L.ownerId # lastCall.ownerId
         /\ lastCall.t < L.leaseUntilMs
         /\ L.updatedAt > 0 /\ L.lastProgressAtMs < L.updatedAt
    /\ RowAfter = lastCall.pre

\* C3 as stated: a successful tryClaim (stale_minutes >= 1) leaves the row
\* with owner_id = the caller, lease_until_ms = now + lease_ms and
\* last_progress_ms = max(previous last_progress_ms, now).
C3_ClaimSetsProgressToMax ==
    (lastCall.op = "tryClaim" /\ lastCall.staleMinutes >= 1 /\ lastCall.ok) =>
        \E R \in RowAfter :
            /\ RowAfter = {R}
            /\ R.ownerId = lastCall.ownerId
            /\ R.leaseUntilMs = lastCall.t + GrantedLeaseMs(lastCall.leaseMs)
            /\ \A L \in lastCall.pre :
                 R.lastProgressAtMs = Max(L.lastProgressAtMs, lastCall.t)
            /\ lastCall.pre = {} => R.lastProgressAtMs = lastCall.t

\* C6: renew succeeds iff the row exists and is owned by the caller; on
\* success lease_until_ms = now + lease_ms while owner_id and last_progress_ms
\* stay as they were; otherwise nothing changes.
C6_RenewFrame ==
    lastCall.op = "renew" =>
        /\ lastCall.ok <=> \E L \in lastCall.pre : L.ownerId = lastCall.ownerId
        /\ lastCall.ok =>
             \E L \in lastCall.pre, R \in RowAfter :
                /\ RowAfter = {R}
                /\ R.ownerId = L.ownerId
                /\ R.lastProgressAtMs = L.lastProgressAtMs
                /\ R.leaseUntilMs = lastCall.t + GrantedLeaseMs(lastCall.leaseMs)
                /\ R.job = L.job /\ R.shard = L.shard
        /\ ~lastCall.ok => RowAfter = lastCall.pre

\* C6 witness: the owner renewed a lease whose last progress is in the past,
\* and the lease end moved.
C6_Witness ==
    /\ lastCall.op = "renew" /\ lastCall.ok
    /\ \E L \in lastCall.pre, R \in RowAfter :
         /\ R.lastProgressAtMs < lastCall.t
         /\ R.leaseUntilMs # L.leaseUntilMs

----------------------------------------------------------------------------
(* Properties of the batch worker (WorkerSpec, FleetSpec) *)

\* The run is fetching and upserting candles, or about to write the cursor.
Working(w) ==
    \/ worker[w].pc = "cursor"
    \/ worker[w].pc = "run" /\ now - worker[w].startedAt < RUN_TIMEOUT_MS

\* Tickers of sel whose candles the run has upserted for every timeframe.
Completed(w) == IF worker[w].tf = Len(TFS) THEN worker[w].done ELSE 0

\* C1 as stated: never two workers both doing shard work for the same
\* (job, shard) (every node of the fleet works on (JOB_NAME, SHARD_INDEX)).
C1_AtMostOneActive ==
    \A w1, w2 \in Nodes : w1 # w2 => ~(Working(w1) /\ Working(w2))

\* C4 as stated: a run does no shard work before its tryClaim returned
\* ok:true, and a run whose claim is denied exits 0 reporting "skipped"
\* without having done shard work.
C4_ClaimBeforeWork ==
    \A w \in Nodes :
        /\ (Working(w) \/ worker[w].wroteCandles \/ worker[w].wroteCursor)
              => worker[w].claimed
        /\ worker[w].log = "not_owner" =>
              /\ worker[w].exit = 0
              /\ ~worker[w].wroteCandles /\ ~worker[w].wroteCursor

\* C5 as stated: a run in which a coordinator call failed ends with exit
\* code 0 and the log skipped: lease_error, having written no candle data
\* and no cursor.
C5_LeaseErrorWritesNothing ==
    \A w \in Nodes :
        (worker[w].pc = "done" /\ worker[w].callFailed) =>
            /\ worker[w].exit = 0 /\ worker[w].log = "lease_error"
            /\ ~worker[w].wroteCandles /\ ~worker[w].wroteCursor

\* C7 as stated: a run that ends on the run timeout exits 124 with the cursor
\* advanced to the last completed ticker.
C7_TimeoutAdvancesCursor ==
    \A w \in Nodes :
        worker[w].log = "run_timeout" =>
            /\ worker[w].exit = 124
            /\ StartIndex(cursorFile[w], ShardSize)
                 = (worker[w].start + Completed(w)) % ShardSize

----------------------------------------------------------------------------
(* Properties of the candle table (CandleSpec) *)

UniqueKeys(table) ==
    \A r1, r2 \in table :
        (r1.ticker = r2.ticker /\ r1.tf = r2.tf /\ r1.ts = r2.ts) => r1 = r2

\* A table without the ingestion time of its documents.
Observable(table) ==
    {[id |-> r.id, ticker |-> r.ticker, tf |-> r.tf, ts |-> r.ts, ohlc |-> r.ohlc] :
        r \in table}

\* upsertMany(X) now, from the current table
Once(ticker, tf, batch) == UpsertLoop(candles, nextId, ticker, tf, batch, now)

\* C8 as stated: upsertMany(X); upsertMany(X) leaves the candle table in the
\* same state as upsertMany(X), with one row per (ticker, tf, ts).
C8_SecondUpsertSameTable ==
    \A ticker \in CandleTickers, tf \in CandleTfs, batch \in Batches :
        \A t2 \in {now, now + TickMs} :
            LET once == Once(ticker, tf, batch)
                twice == UpsertLoop(once.table, once.nextId, ticker, tf, batch, t2)
            IN /\ twice.table = once.table
               /\ UniqueKeys(once.table)

\* C8 amended: after any calls the table has one row per (ticker, tf, ts),
\* and a second upsertMany(X) inserts nothing and leaves every document as
\* the first left it, except for ingestedAt, which is the time of the
\* second call on every document of X.
C8_SecondUpsertSameRows ==
    /\ UniqueKeys(candles)
    /\ \A ticker \in CandleTickers, tf \in CandleTfs, batch \in Batches :
        \A t2 \in {now, now + TickMs} :
            LET once == Once(ticker, tf, batch)
                twice == UpsertLoop(once.table, once.nextId, ticker, tf, batch, t2)
            IN /\ Observable(twice.table) = Observable(once.table)
               /\ twice.inserted = 0
               /\ UniqueKeys(twice.table)
               /\ \A i \in 1..Len(batch) :
                    \E r \in twice.table :
                       /\ r.ticker = ticker /\ r.tf = tf /\ r.ts = batch[i].ts
                       /\ r.ingestedAt = t2

\* C8 witness: a call with the same ts twice has updated a document that an
\* earlier call inserted at an earlier time.
C8_Witness ==
    /\ lastUpsert.updated = 2 /\ lastUpsert.inserted = 0
    /\ \E r1, r2 \in candles : r1.ingestedAt < r2.ingestedAt
    /\ Cardinality(candles) = Cardinality(Ts)

\* The greatest ts among the documents of (ticker, tf).
MaxTsOf(ticker, tf) ==
    CHOOSE m \in {r.ts : r \in ByTickerTf(candles, ticker, tf)} :
        \A r \in ByTickerTf(candles, ticker, tf) : r.ts <= m

\* C9 as stated: the latest read of a (ticker, tf) is the candle with the
\* greatest ts upserted so far.
C9_LatestIsMaxTs ==
    \A ticker \in CandleTickers, tf \in CandleTfs :
        ByTickerTf(candles, ticker, tf) # {} =>
            /\ CandlesLatestTs(candles, ticker, tf) = {MaxTsOf(ticker, tf)}
            /\ LET rows == Latest(candles, ticker, tf, NoArg)
               IN rows[Len(rows)].ts = MaxTsOf(ticker, tf)

----------------------------------------------------------------------------
(* Properties of GET /candles (ApiSpec) *)

PagedBars == {r.ts : r \in {x \in pgCandles : x.ticker = PagedTicker /\ x.tf = PagedTf}}

\* C10: the pages come in strictly descending ts and hold bars of the pair
\* only; once a page is empty every bar has been returned exactly once; and
\* the page before the smallest ts is empty.
C10_KeysetPagingExact ==
    /\ \A i, j \in 1..Len(pager.seen) : i < j => pager.seen[i] > pager.seen[j]
    /\ \A i \in 1..Len(pager.seen) : pager.seen[i] \in PagedBars
    /\ pager.phase = "done" =>
         /\ {pager.seen[i] : i \in 1..Len(pager.seen)} = PagedBars
         /\ Len(pager.seen) = Cardinality(PagedBars)
    /\ (Truthy(pager.beforeTs) /\ \A b \in PagedBars : Number(pager.beforeTs) <= b)
         => pager.page = <<>>

\* C10 witness: every bar, the one at ts 0 included, was returned in pages of
\* two, and the request with beforeTs = the smallest ts returned nothing.
C10_Witness ==
    /\ pager.phase = "done" /\ pager.limit = Str(2)
    /\ Len(pager.seen) = Cardinality(BarTs)
    /\ pager.beforeTs = Str(0) /\ pager.page = <<>>

\* The request carried the configured key in its x-api-key header.
Authenticated == httpLog.key # NoHeader /\ httpLog.key = "secret"

\* C11 as stated: a request without the configured key is answered 401 on
\* every endpoint, /healthz included, and no warehouse query runs for it.
C11_EveryEndpointNeedsKey ==
    (httpLog.endpoint # "" /\ ~Authenticated) =>
        httpLog.status = 401 /\ ~httpLog.queried

\* The stable error codes of the query service
StableErrorCodes ==
    {"unauthorized", "invalid_ticker", "invalid_window_days", "invalid_limit",
     "missing_param", "not_found", "internal_error"}

\* C24: every error response of the query service carries an error code of
\* the stable set and never the text of an internal or third-party error,
\* for any request parameters and any warehouse failure.
C24_StableErrorCodes ==
    httpLog.status >= 400 =>
        /\ httpLog.error \in StableErrorCodes
        /\ httpLog.error # PgErrorMessage

----------------------------------------------------------------------------
(* Properties of the repair queue (QueueSpec) *)

\* The documents the last call read, as the call left them.
QueueRowAfter == {row \in repairQueue : \E old \in queueCall.pre : old.id = row.id}

\* C12 as stated: there is one row per (ticker, tf, window_start, window_end);
\* enqueue never changes the status of an existing row, leaves a done row
\* entirely unchanged, and updates expected_bars and note of no row other
\* than a queued or running one.
C12_EnqueueDeduplicates ==
    /\ \A r1, r2 \in repairQueue : WindowOf(r1) = WindowOf(r2) => r1 = r2
    /\ queueCall.op = "enqueue" =>
         \A old \in queueCall.pre :
            \E row \in QueueRowAfter :
               /\ QueueRowAfter = {row}
               /\ row.status = old.status
               /\ old.status = "done" => row = old
               /\ old.status \notin {"queued", "running"} =>
                    row.expectedBars = old.expectedBars /\ row.note = old.note

\* The status changes a row may make
StatusSteps == {<<"queued", "running">>, <<"running", "done">>, <<"running", "error">>}

\* C13 as stated: every change of a row's status is queued -> running,
\* running -> done or running -> error, and a new row starts queued.
C13_StatusHistory ==
    [][\A row \in repairQueue' :
          /\ (\A old \in repairQueue : old.id # row.id) => row.status = "queued"
          /\ \A old \in repairQueue :
               (old.id = row.id /\ old.status # row.status)
                  => <<old.status, row.status>> \in StatusSteps]_vars

\* C14 as stated: enqueueing the window of an error row again yields a queued
\* row of that window that nextQueued returns, and the error row stays in error.
C14_ErrorWindowRetried ==
    (queueCall.op = "enqueue" /\ \E old \in queueCall.pre : old.status = "error") =>
        /\ \A old \in queueCall.pre :
             \E row \in repairQueue : row.id = old.id /\ row.status = "error"
        /\ \A old \in queueCall.pre :
             LET rows == NextQueued(repairQueue, NoArg)
             IN \E i \in 1..Len(rows) : WindowOf(rows[i]) = WindowOf(old)

----------------------------------------------------------------------------
(* Properties of the source client (ClientSpec) *)

\* The outcomes after which the spec has the client try again
Retryable(outcome) == outcome.err # "" \/ (outcome.status >= 500 /\ outcome.status <= 599)

\* C15 as stated: a further attempt is made exactly when the previous one
\* ended in a network error, DNS failure, timeout or HTTP 5xx and fewer than
\* N = 4 attempts were made; retry k+1 waits 500 * 2^k ms; a 4xx ends the call.
C15_RetryExactlyOnTransient ==
    LET n == Len(client.history) IN
    /\ n <= 4
    /\ \A k \in 1..(n - 1) : Retryable(client.history[k])
    /\ \A k \in 1..Len(client.delays) : client.delays[k] = 500 * Pow2(k - 1)
    /\ client.pc \in {"returned", "thrown"} =>
         /\ Len(client.delays) = n - 1
         /\ Retryable(client.history[n]) => n = 4

\* C16 as stated: the client never lets an exception out, and a run whose
\* source calls were exhausted still goes through every ticker and ends
\* with its state persisted.
C16_ExhaustionIsTypedResult ==
    /\ client.pc # "thrown"
    /\ ingest.pc = "done" =>
         /\ ingest.stateWritten
         /\ ingest.i = Len(IngestTickers)

\* C17: after any sequence of upsertArticleSymbol calls, with any methods and
\* confidences, there is at most one link row per (url, ticker).
C17_OneLinkPerPair ==
    \A url \in Urls, ticker \in LinkTickers :
        Cardinality(LinksOf(articleSymbols, url, ticker)) <= 1

\* C18: for every (url, ticker) the stored link confidence equals the highest
\* confidence observed so far for that pair, whatever the order and the method
\* of the observations (and so never decreases).
C18_ConfidenceIsMaxObserved ==
    \A url \in Urls, ticker \in LinkTickers :
        \A r \in LinksOf(articleSymbols, url, ticker) :
            r.confidence = observedMax[<<url, ticker>>]

\* C19: replaceFiLatest(rows) is all-or-nothing: at every instant a reader can
\* observe, and after a failure or crash inside the call, fi_latest holds
\* either exactly the previous rows or exactly the new rows.
C19_ReplaceAllOrNothing ==
    replaceCall.pc # "idle" =>
        \/ fiLatest = replaceCall.prev
        \/ fiLatest = TableOf(replaceCall.rows)

\* C20: fi_points has exactly one row per primary key (ticker, period,
\* statement, periodDate, metric) that was ever upserted, holding the value,
\* periodDateName and fetchedAt of the last upsert of that key, and upserting
\* the same rows twice leaves the table that upserting them once leaves, also
\* for rows whose periodDate is NULL.
C20_UpsertKeepsOneRowPerKey ==
    /\ \A k \in FiKeys :
        LET rows == {t \in fiPoints : t.periodDate = k[1] /\ t.metric = k[2]} IN
        IF fiLastUpsert[k] = NoPayload
        THEN rows = {}
        ELSE /\ Cardinality(rows) = 1
             /\ \A t \in rows : /\ t.value = fiLastUpsert[k].value
                                /\ t.periodDateName = fiLastUpsert[k].periodDateName
                                /\ t.fetchedAt = fiLastUpsert[k].fetchedAt
    /\ fiCall.again => fiPoints = fiCall.pre

----------------------------------------------------------------------------
(* Properties of the fundamentals ingest (FundSpec) *)

\* C21: when two successive fetches of a (ticker, period) return the same
\* upstream data, the second ingest finds the hash unchanged, writes no new
\* dated snapshot and appends no rows to the NDJSON log; only the _latest.json
\* file is rewritten.
C21_SameDataWritesNothing ==
    fundRun.sameUpstream =>
        /\ ~fundRun.changed
        /\ fundDisk.snapshots = fundRun.snapshotsBefore
        /\ fundDisk.ndjson[fundRun.ticker] = fundRun.ndjsonBefore
        /\ fundRun.latestWritten

----------------------------------------------------------------------------
(* Properties of stableStringify and blockHash (StrSpec) *)

\* The same JSON value up to the order of the keys of its objects, at any depth
RECURSIVE SameUpToKeyOrder(_, _)
SameUpToKeyOrder(x, y) ==
    /\ x.t = y.t
    /\ IF x.t = "arr"
       THEN /\ Len(x.v) = Len(y.v)
            /\ \A i \in 1..Len(x.v) : SameUpToKeyOrder(x.v[i], y.v[i])
       ELSE IF x.t = "obj"
       THEN /\ {x.v[i][1] : i \in 1..Len(x.v)} = {y.v[i][1] : i \in 1..Len(y.v)}
            /\ \A i \in 1..Len(x.v) : \A j \in 1..Len(y.v) :
                 x.v[i][1] = y.v[j][1] => SameUpToKeyOrder(x.v[i][2], y.v[j][2])
       ELSE x = y

\* C22: for all JSON values x and y, stableStringify(x) = stableStringify(y)
\* iff blockHash(x) = blockHash(y); both are unchanged by a reordering of
\* object keys at any depth, and the order of arrays is kept: two values have
\* the same string exactly when they differ in key order only.
C22_StableStringifyCanonical ==
    strCall.pc = "done" =>
        /\ (strCall.sx = strCall.sy) <=> (strCall.hx = strCall.hy)
        /\ (strCall.sx = strCall.sy) <=> SameUpToKeyOrder(strCall.x, strCall.y)

\* Two different values that differ in the key order of a nested object
C22_Witness ==
    /\ strCall.pc = "done"
    /\ strCall.x # strCall.y
    /\ strCall.x.t = "arr"
    /\ SameUpToKeyOrder(strCall.x, strCall.y)
    /\ strCall.sx = strCall.sy

----------------------------------------------------------------------------
(* Properties of GET /news/latest (NewsSpec) *)

\* The urls of the fetched articles in (published_at DESC, url DESC) order
FetchedInOrder ==
    LET seq == OrderNews({a \in pgArticles : a.fetch_status = "fetched"}) IN
    [i \in 1..Len(seq) |-> seq[i].url]

\* C23: following nextCursor of /news/latest from the first page until an
\* empty page returns every article with fetch_status = 'fetched' exactly
\* once, in (published_at DESC, url DESC) order, and never an article of
\* another status, also when articles share a published_at or have none.
C23_NewsPagingExact ==
    /\ newsPager.pc # "failed"
    /\ Len(newsPager.seen) <= Len(FetchedInOrder)
    /\ newsPager.seen = SubSeq(FetchedInOrder, 1, Len(newsPager.seen))
    /\ newsPager.pc = "done" => newsPager.seen = FetchedInOrder

----------------------------------------------------------------------------
(* Properties of the symbol linker (LinkerSpec) *)

\* The confidences of the rules that matched a ticker
MatchedConfidences(tk) ==
    {LinkRules[n].confidence : n \in {i \in 1..Len(LinkRules) : tk \in linkCall.matches[i]}}

\* The tickers the output is about: matched, not a stop word, known
Linkable ==
    {tk \in Candidates :
        /\ MatchedConfidences(tk) # {}
        /\ tk \notin STOPWORDS
        /\ linkCall.knownTickers = NoKnownTickers \/ tk \in linkCall.knownTickers}

\* C25: the output of the linker holds at most one entry per ticker, with the
\* highest confidence among the rules that matched the ticker, sorted by
\* confidence descending then ticker ascending; the same text and known
\* tickers always give the same output.
C25_LinkerOutput ==
    linkCall.pc = "done" =>
        LET out == linkCall.out IN
        /\ \A i, j \in 1..Len(out) : out[i].ticker = out[j].ticker => i = j
        /\ {out[i].ticker : i \in 1..Len(out)} = Linkable
        /\ \A i \in 1..Len(out) :
             \A c \in MatchedConfidences(out[i].ticker) : out[i].confidence >= c
        /\ \A i \in 1..Len(out) : out[i].confidence \in MatchedConfidences(out[i].ticker)
        /\ \A i, j \in 1..Len(out) : i < j =>
             \/ out[i].confidence > out[j].confidence
             \/ /\ out[i].confidence = out[j].confidence
                /\ TickerRank(out[i].ticker) < TickerRank(out[j].ticker)
        /\ out = linkSymbolsFromText(linkCall.matches, linkCall.knownTickers)

\* A ticker matched by a weak and a strong rule, beside one of equal confidence
C25_Witness ==
    /\ linkCall.pc = "done"
    /\ Len(linkCall.out) = 2
    /\ linkCall.out[1].confidence = linkCall.out[2].confidence
    /\ Cardinality(MatchedConfidences(linkCall.out[1].ticker)) >= 2

----------------------------------------------------------------------------
(* Properties of evaluateFreshness (FreshSpec) *)

\* What the result is to be when the timestamp counts as there
FreshnessOf(nowMs, lastMs, maxAgeMs, result) ==
    IF nowMs < lastMs
    THEN result.ok /\ result.reason = "clock_skew"
    ELSE IF nowMs - lastMs > maxAgeMs
    THEN ~result.ok /\ result.reason = "stale"
    ELSE result.ok /\ result.reason = "fresh"

\* C26 as stated: missing_timestamp when last is null, and for every other
\* last: clock_skew when now < last, stale when now - last > maxAge, fresh
\* when now - last <= maxAge.
C26_FreshnessAsStated ==
    freshCall.pc = "done" =>
        IF freshCall.lastUpdatedMs = JsNull
        THEN ~freshCall.result.ok /\ freshCall.result.reason = "missing_timestamp"
        ELSE FreshnessOf(freshCall.nowMs, freshCall.lastUpdatedMs.n, freshCall.maxAgeMs,
                         freshCall.result)

\* C26 amended: missing_timestamp (ok false) when last is null, not a finite
\* number, or not above 0; for a last above 0: ok true / clock_skew when
\* now < last, ok false / stale when now - last > maxAge, ok true / fresh when
\* now - last <= maxAge.
C26_FreshnessCases ==
    freshCall.pc = "done" =>
        IF freshCall.lastUpdatedMs.t # "number" \/ freshCall.lastUpdatedMs.n <= 0
        THEN ~freshCall.result.ok /\ freshCall.result.reason = "missing_timestamp"
        ELSE FreshnessOf(freshCall.nowMs, freshCall.lastUpdatedMs.n, freshCall.maxAgeMs,
                         freshCall.result)

\* A timestamp of 0, which is a number and not after now, was evaluated
C26_Witness ==
    /\ freshCall.pc = "done"
    /\ freshCall.lastUpdatedMs = JsNumber(0)
    /\ freshCall.nowMs > freshCall.maxAgeMs
    /\ freshCall.result.reason = "missing_timestamp"


----------------------------------------------------------------------------
(* Properties of the lease boundary and of the worker contract *)

\* C30 as stated: a tryClaim executed at a time now equal to the row's
\* lease_until_ms returns ok:true, whoever owns the row and however recent
\* its last_progress_ms is.
C30_ClaimAtLeaseEnd ==
    lastCall.op = "tryClaim" =>
        \A L \in lastCall.pre : L.leaseUntilMs = lastCall.t => lastCall.ok

\* C28 as stated: from an owner's successful tryClaim on (a claim that took
\* over a stale or expired lease included), no tryClaim by a different owner
\* succeeds while the owner keeps the worker contract.  Checked at the
\* earliest moment: the other owner calls tryClaim (same stale_minutes >= 1)
\* at the instant of the claim, before any report_progress or renew is due.
C28_CompliantOwnerKeepsLease ==
    [][(/\ lastCall.op = "tryClaim" /\ lastCall.ok
        /\ lastCall.staleMinutes >= 1
        /\ lastCall'.op = "tryClaim"
        /\ lastCall'.job = lastCall.job /\ lastCall'.shard = lastCall.shard
        /\ lastCall'.ownerId # lastCall.ownerId
        /\ lastCall'.staleMinutes = lastCall.staleMinutes
        /\ lastCall'.t = lastCall.t)
          => ~lastCall'.ok]_vars

\* The run won its claim at boot and its backfill children finished every
\* ticker of sel for every timeframe; no coordinator call of the run failed.
BatchFinished(w) ==
    /\ worker[w].claimed /\ ~worker[w].callFailed
    /\ worker[w].tf = Len(TFS)
    /\ worker[w].done = Len(Sel(worker[w].start, BATCH_SIZE, ShardSize))

\* C27 as stated: a run that won its claim, processed its whole batch without
\* error or timeout and reached the coordinator does not end before it has
\* written the cursor with next_index = (next_index + batch_size) mod
\* universe_size, also when the lease it claimed at boot is still unexpired.
C27_FinishedBatchAdvancesCursor ==
    \A w \in Nodes :
        (worker[w].pc = "done" /\ BatchFinished(w)) =>
            /\ worker[w].wroteCursor
            /\ cursorFile[w] = NextIndex(worker[w].start, BATCH_SIZE, ShardSize)

\* C29 as stated: while a worker is processing its batch, the last_progress_ms
\* of the lease it holds is never older than the stale window.
C29_ProgressFreshWhileWorking ==
    \A w \in Nodes :
        (worker[w].pc = "run" /\ Working(w) /\ worker[w].claimed) =>
            \A L \in ByJobShard(shardLeases, JOB_NAME, SHARD_INDEX) :
                L.ownerId = w =>
                    now - L.lastProgressAtMs <= StaleMs(STALE_MINUTES)

----------------------------------------------------------------------------
(* Properties of the cursors (CursorSpec) *)

\* The positions a cursor over n entries moves past on its way from `from`
\* to `to`, going forward and wrapping around.
Passed(from, to, n) == {(from + k) % n : k \in 0..(((to - from + n) % n) - 1)}

\* The elements of a sequence
Range(seq) == {seq[i] : i \in 1..Len(seq)}

\* A step that writes the shard cursor of node w
ShardCursorWritten(w) ==
    \/ cursorFile'[w] # cursorFile[w]
    \/ worker'[w].wroteCursor /\ ~worker[w].wroteCursor

\* A step that writes the chunk cursor
ChunkCursorWritten ==
    \/ expandCursor' # expandCursor
    \/ expand.pc = "cursor" /\ expand'.pc = "done" /\ expand'.exit = 0

C35_NoTornCursor ==
    /\ \A w \in Nodes : cursorFile[w] # TornFile
    /\ expandCursor # TornFile

----------------------------------------------------------------------------
(* Properties of the batch selection (SelSpec) *)

\* C32 as stated: the batch is batch_size tickers starting at next_index in
\* the shard list's order, wrapping around, and no ticker appears twice in
\* one batch, for every batch_size, one larger than the shard included
\* (shards of at least one ticker).
C32_BatchIsNextTickersOnce ==
    (batchSel.pc = "done" /\ batchSel.n >= 1) =>
        /\ Len(batchSel.sel) = batchSel.batchSize
        /\ \A i \in 1..Len(batchSel.sel) :
             batchSel.sel[i]
                = Tickers(batchSel.n)[((batchSel.start + i - 1) % batchSel.n) + 1]
        /\ \A i, j \in 1..Len(batchSel.sel) :
             i # j => batchSel.sel[i] # batchSel.sel[j]

\* The next_index the run found: 0 when there is no cursor file.
PreviousIndex == IF batchSel.stored = NoFile THEN 0 ELSE batchSel.stored

\* C33 as stated: after every cursor write 0 <= next_index < universe size
\* and next_index = (previous next_index + batch_size) mod universe size,
\* an empty shard and a stored next_index beyond the shard included.
C33_NextIndexInShard ==
    batchSel.pc = "done" =>
        /\ 0 <= batchSel.file /\ batchSel.file < batchSel.n
        /\ batchSel.file = (PreviousIndex + batchSel.batchSize) % batchSel.n

\* C33: after a cursor write on a shard of n >= 1 tickers, 0 <= next_index < n
\* and next_index = (previous next_index + batch_size) mod n, also for a
\* stored next_index beyond n; on an empty shard the next_index written is 0.
C33_NextIndexWraps ==
    batchSel.pc = "done" =>
        IF batchSel.n = 0 THEN batchSel.file = 0
        ELSE /\ 0 <= batchSel.file /\ batchSel.file < batchSel.n
             /\ batchSel.file = (PreviousIndex + batchSel.batchSize) % batchSel.n

\* C33 witness: the run found a next_index beyond the shard and its batch
\* went over the end of the list.
C33_Witness ==
    /\ batchSel.pc = "done" /\ batchSel.n = 3 /\ batchSel.stored = 4
    /\ batchSel.batchSize = 4 /\ batchSel.file = 2

----------------------------------------------------------------------------
(* Properties of the cursor's writer (WorkerSpec) *)

\* Node w holds the lease of (JOB_NAME, SHARD_INDEX): the row names it.
OwnsLease(w) ==
    \E L \in ByJobShard(shardLeases, JOB_NAME, SHARD_INDEX) : L.ownerId = w

\* C34 as stated: every cursor write is made by a process that owns the
\* shard's lease at the moment of writing, so an owner that has been
\* displaced never writes the cursor.
C34_CursorWriterOwnsLease ==
    [][\A w \in Nodes :
          (worker'[w].wroteCursor /\ ~worker[w].wroteCursor) => OwnsLease(w)]_vars

----------------------------------------------------------------------------
(* Properties of candle upserts in both orders (OrderSpec) *)

\* The candles of a table: its rows without _id and ingestedAt.
Bars(table) == {[ticker |-> r.ticker, tf |-> r.tf, ts |-> r.ts, ohlc |-> r.ohlc] : r \in table}

\* C36 as stated: the candles of the final table are the same for both
\* orders of two upserts of one (ticker, tf), also when the two carry the
\* same ts with different values.
C36_UpsertOrderIndependent ==
    orderRun.pc = "done" => Bars(orderRun.ab) = Bars(orderRun.ba)

----------------------------------------------------------------------------
(* Properties of the page size of GET /candles (LimitSpec) *)

\* C37 as stated: for every value of the limit parameter (absent, zero,
\* negative, above 2000, non-numeric) the page size is in [1, 2000], it is
\* 500 when limit is absent, and the request is answered with at most that
\* many rows.
C37_PageSizeClamped ==
    limitCall.pc = "done" =>
        /\ limitCall.pageSize \in 1..2000
        /\ limitCall.limit = Absent => limitCall.pageSize = 500
        /\ limitCall.status = 200 /\ limitCall.count <= limitCall.pageSize

----------------------------------------------------------------------------
(* Properties of the repair workers racing for a row *)

Callers(id) == {r \in RepairWorkers : repairers[r].pc = "called" /\ repairers[r].id = id}

\* C38: when several repair workers took the same queued row from nextQueued
\* and call markRunning, exactly one call answers ok, the row's attempts goes
\* up by exactly 1 (from the 0 of a queued row), and every other call answers
\* not ok and leaves the table as it was.
C38_OneWorkerWinsRow ==
    \A row \in repairQueue :
        Callers(row.id) # {} =>
            /\ Cardinality({r \in Callers(row.id) : repairers[r].result = "ok"}) = 1
            /\ row.attempts = 1
            /\ row.status = "running"
            /\ \A r \in Callers(row.id) :
                   /\ repairers[r].result \in {"ok", "not ok"}
                   /\ repairers[r].result = "not ok" => ~repairers[r].changed
                   /\ repairers[r].result = "ok" => repairers[r].changed

\* all three workers took one row and called; one won and two were refused
C38_Witness ==
    \E row \in repairQueue :
        /\ Callers(row.id) = RepairWorkers
        /\ Cardinality({r \in RepairWorkers : repairers[r].result = "not ok"}) = 2
        /\ row.attempts = 1

----------------------------------------------------------------------------
(* Properties of the link backfill *)

\* C39: across repeated runs every eligible article is processed by some run:
\* the stored cursor is never past (at or beyond the published_at of) an
\* eligible article that has not been linked, also when more articles share
\* one published_at than fit in a batch.
C39_CursorNeverSkips ==
    \A a \in backfill.archive :
        Eligible(a) /\ a.publishedAt <= backfill.cursor => a.url \in backfill.linked

----------------------------------------------------------------------------
(* Properties of the interrupted fundamentals ingest *)

AtRest == fundIngest.pc \in {"idle", "done", "interrupted"}

\* the hash h was computed from a block fetched no earlier than block b
KnowsBlock(h, b) == h # NoHash /\ h.sha256.fetchedAt >= b.fetchedAt

\* C40: if an ingest run is interrupted at any point and then run again, the
\* hash recorded in state.json for each (ticker, period) stays consistent with
\* the NDJSON log: between runs state.json has the hash of a block at least as
\* new as the last block appended to the log, and the log never holds the
\* rows of the same upstream data twice in a row from a run that did not know
\* the first append; a block that changed is appended before its hash is
\* recorded.
C40_StateMatchesLog ==
    \A t \in FundTickers :
        LET log == fundIngest.log[t] IN
        /\ (AtRest /\ log # <<>>) =>
               KnowsBlock(fundDisk.hashes[t], log[Len(log)].block)
        /\ \A i \in 1..(Len(log) - 1) :
               (log[i].block.data = log[i + 1].block.data) =>
                   KnowsBlock(log[i + 1].prevHash, log[i].block)
        /\ (AtRest /\ fundDisk.hashes[t] # NoHash
                   /\ NormalizedRows(fundDisk.hashes[t].sha256) > 0) =>
               \E i \in 1..Len(log) : log[i].block = fundDisk.hashes[t].sha256

====
